---- MODULE Spec2Model ----
(***************************************************************************)
(* Model of the "for" automation engine (second, current version of        *)
(* pkg/tasks/tasks.go, lines 468-1218) and of the SSH connection pool      *)
(* (pkg/ssh/ssh.go).                                                       *)
(*                                                                         *)
(*   Spec         RunPlaybook: dispatcher, per-host workers, handlers,     *)
(*                fail-fast, the forks semaphore, timeouts.                *)
(*   SpecPool     ssh.Pool used by concurrent goroutines, with the         *)
(*                deferred Pool.Close of RunPlaybook.                      *)
(*   SpecPoolSeq  ssh.Pool used by one goroutine (sequential calls).       *)
(***************************************************************************)
EXTENDS Integers, Sequences, FiniteSets, TLC

(***************************************************************************)
(* Bounds of the model and program constants.                              *)
(***************************************************************************)
\* number of hosts of the inventory group the plays target
NHosts == 2

\* opts.Forks is drawn from 0..MaxForks (0 selects the default)
MaxForks == 1

\* at most MaxFaults backend invocations of a run end in an error or a timeout
MaxFaults == 1

\* goroutines using the pool concurrently
NThreads == 2

\* pool operations started per goroutine
MaxCalls == 3

\* distinct user@host:port keys
NKeys == 1

\* at most MaxPoolFaults dials or session opens fail
MaxPoolFaults == 2

\* tag lists given to matchesTags have at most MaxTags entries
MaxTags == 2

\* with_items lists have at most MaxItems items, tasks at most MaxRetries retries
MaxItems == 2

MaxRetries == 1

\* a meta file lists at most MaxDeps distinct dependencies
MaxDeps == 2

\* an inventory file has at most MaxLines lines
MaxLines == 3

\* tasks.go:1012-1014  if opts.Forks <= 0 { opts.Forks = 5 }
DefaultForks == 5

Hosts == 1..NHosts

(***************************************************************************)
(* The playbook under execution.  Tasks are the resolved task lists that   *)
(* LoadServiceTasksWithDeps returns for each service of a play.            *)
(*   tags        : the tag list, in declaration order                      *)
(*   when        : the task has a non-empty `when` expression              *)
(*   timeout     : the task has a non-empty (valid) `timeout`              *)
(***************************************************************************)
NoNotify == ""

Task(name, notify, ignore, tags, when, timeout) ==
  [name |-> name, notify |-> notify, ignoreErrors |-> ignore, tags |-> tags,
   when |-> when, timeout |-> timeout]

ServiceTasks(service) ==
  CASE service = "A" ->
         << Task("T1", "K1", FALSE, << "deploy" >>, FALSE, TRUE),
            Task("T2", "K1", FALSE, << "install" >>, FALSE, FALSE) >>
    [] service = "B" ->
         << Task("T3", "K1", TRUE, << "install" >>, TRUE, FALSE) >>
    [] service = "C" ->
         << Task("T4", NoNotify, FALSE, << "install" >>, FALSE, FALSE),
            Task("T5", NoNotify, FALSE, << "deploy" >>, FALSE, FALSE) >>
    [] OTHER -> << >>

Playbook ==
  << [name |-> "p1", tags |-> << "install" >>, handlers |-> << "K1", "K2" >>,
      services |-> << "A", "B" >>],
     [name |-> "p2", tags |-> << >>, handlers |-> << "K2" >>,
      services |-> << "C" >>] >>

NPlays == Len(Playbook)

Pos == { ps \in (1..NPlays) \X (1..2) : ps[2] <= Len(Playbook[ps[1]].services) }

\* worker identities: one goroutine per (play, service, host)
WorkerIds == { <<ps[1], ps[2], h>> : ps \in Pos, h \in Hosts }

TasksOf(w) == ServiceTasks(Playbook[w[1]].services[w[2]])

HandlersOf(w) == Playbook[w[1]].handlers

\* lexicographic order of (play, service) positions
Before(a, b) == a[1] < b[1] \/ (a[1] = b[1] /\ a[2] < b[2])

(***************************************************************************)
(* State.                                                                  *)
(***************************************************************************)
VARIABLES
  opts,           \* RunOptions: failFast, forks (after defaulting), tags, skipTags
  mpc,            \* RunPlaybook's position: play | service | dispatch | wait | recap | done
  mp, ms, mh,     \* play index, service index, next host to dispatch
  sem,            \* number of slots taken in the semaphore channel
  wg,             \* WaitGroup counter
  worker,         \* per worker goroutine: position in runHostTasks and its locals
  abandoned,      \* invocations left running by runWithTimeout after the deadline
  allSummaries,   \* recap map: host -> HostSummary (hosts merged so far)
  overallFailed,
  recapCount,     \* number of printer.Recap calls
  hrun,           \* history: handler executions per (play, host, handler index)
  firstFail,      \* history: under fail-fast, the (play, service) positions at which
                  \* a worker recorded summary.Failed++
  faults,         \* number of invocations that ended in an error or a timeout
  anyFailed,      \* history: some task or handler outcome was classified failed
  result,         \* what RunPlaybook returned: "none" while running, "nil", "error"
  loadErr         \* the services whose tasks or meta file cannot be loaded

evars == << opts, mpc, mp, ms, mh, sem, wg, worker, abandoned, allSummaries,
            overallFailed, recapCount, hrun, firstFail, faults, anyFailed, result,
            loadErr >>

VARIABLES
  clients,        \* Pool.clients: key -> cached client
  created,        \* clients made by newClient so far: client id -> key
  closedC,        \* clients on which Close() has been called
  pth,            \* per goroutine: position in Pool.session and its locals
  last,           \* per goroutine: outcome of its last pool operation
  dials,          \* number of newClient calls
  nfail,          \* failures so far: session open on a cached client, on a
                  \* freshly dialed client, dial
  failLog,        \* outcomes of the operations that saw a cached client fail
  closes,         \* number of Pool.Close calls
  abandonedT      \* goroutines whose caller stopped waiting (runWithTimeout)

pvars == << clients, created, closedC, pth, last, dials, nfail, failLog, closes,
            abandonedT >>

VARIABLES
  fin,            \* the arguments of the function or entry point under study
  fout            \* what it returned or did

fvars == << fin, fout >>

VARIABLES
  rht,            \* the frame of runHostTasks on one host: position, task and
                  \* handler index, notified, summary, the vars map
  ext,            \* the frame of executeTask: item index, attempt, combined
                  \* result, in-flight and abandoned invocations
  xlog            \* history of the task in execution: iterations started, calls
                  \* of the closure, outcomes

hvars == << rht, ext, xlog >>

VARIABLES
  ld              \* loadWithDeps: call stack, visited map, returned task list

dvars == << ld >>

vars == << evars, pvars, fvars, hvars, dvars >>

ZeroSummary == [ok |-> 0, changed |-> 0, failed |-> 0, skipped |-> 0, ignored |-> 0]

IdleWorker == [st |-> "idle", ti |-> 0, hi |-> 0, notified |-> {},
               sum |-> ZeroSummary, cut |-> FALSE]

\* a worker goroutine that has ended; sum keeps the summary runHostTasks returned
DoneWorker == [IdleWorker EXCEPT !.st = "done"]

(***************************************************************************)
(* Pure helpers.                                                           *)
(***************************************************************************)
matchesTagsFilterFirst(taskTags, filterTags, skipTags) ==
  IF Len(filterTags) = 0
    THEN ~ \E i \in 1..Len(skipTags), j \in 1..Len(taskTags) : skipTags[i] = taskTags[j]
  ELSE \E i \in 1..Len(filterTags), j \in 1..Len(taskTags) :
         filterTags[i] = taskTags[j]

\* tasks.go:652-671
matchesTags(taskTags, filterTags, skipTags) ==
  IF \E i \in 1..Len(skipTags), j \in 1..Len(taskTags) : skipTags[i] = taskTags[j]
    THEN FALSE
  ELSE IF Len(filterTags) = 0 THEN TRUE
  ELSE \E i \in 1..Len(filterTags), j \in 1..Len(taskTags) :
         filterTags[i] = taskTags[j]

\* tasks.go:1012-1014
EffectiveForks(f) == IF f <= 0 THEN DefaultForks ELSE f

BumpTwice(sum, field) == [sum EXCEPT ![field] = @ + 2]

\* tasks.go:938, 955, 958, 965, 968, 974, 990, 993, 996  summary.X++
Bump(sum, field) == [sum EXCEPT ![field] = @ + 1]

\* TaskResult of executeTask, abstracted: is Output empty, Changed, Failed
Result(outEmpty, changed, failed) ==
  [outEmpty |-> outEmpty, changed |-> changed, failed |-> failed]

WhenSkipResultChanged == Result(TRUE, TRUE, FALSE)

\* tasks.go:887-889  when falsy: return TaskResult{}, nil
WhenSkipResult == Result(TRUE, FALSE, FALSE)

\* tasks.go:815-826  runOnce without changed_when: Changed = !Failed
RunOnceResult(err) == Result(FALSE, ~err, err)

\* tasks.go:846-847  TaskResult{Failed: true}, "timed out after ..."
TimeoutResult == Result(TRUE, FALSE, TRUE)

\* tasks.go:951-978  the classification switch of runHostTasks
Classify(task, res, err) ==
  IF err THEN (IF task.ignoreErrors THEN "ignored" ELSE "failed")
  ELSE IF ~res.changed /\ ~res.failed /\ task.when /\ res.outEmpty THEN "skipped"
  ELSE IF res.changed THEN "changed"
  ELSE "ok"

NotifiesAlways(task, class) ==
  IF task.notify # NoNotify THEN {task.notify} ELSE {}

\* tasks.go:969-971, 975-977  notify is recorded on changed and ok only
Notifies(task, class) ==
  IF class \in {"changed", "ok"} /\ task.notify # NoNotify THEN {task.notify} ELSE {}

FailFastReturnAlways(class) == class = "failed"

\* tasks.go:957-961  a failed task returns from runHostTasks under fail-fast
FailFastReturn(class) == class = "failed" /\ opts.failFast

FailFastBreakNever == FALSE

\* tasks.go:1102-1104, 1107-1109
FailFastBreak == overallFailed /\ opts.failFast

WaitDoneAlways == TRUE

\* tasks.go:1100  wg.Wait() returns when the counter is zero
WaitDone == wg = 0

\* tasks.go:1057-1058  LoadServiceTasksWithDeps returns an error for the service
LoadFails(service) == service \in loadErr

\* tasks.go:981-984  the index of the next notified handler at or after hi
\* (handlers that were not notified are passed over), Len+1 when there is none
RECURSIVE NextNotified(_, _, _)
NextNotified(handlers, notified, hi) ==
  IF hi > Len(handlers) THEN hi
  ELSE IF handlers[hi] \in notified THEN hi
  ELSE NextNotified(handlers, notified, hi + 1)

\* tasks.go:979-984, 998-1000  local control flow of runHostTasks up to its next
\* task, its next notified handler, or its return
Settle(w, rec) ==
  IF rec.st = "tasks" /\ rec.ti <= Len(TasksOf(w)) THEN rec
  ELSE IF rec.st \in {"tasks", "handlers"}
    THEN LET hi == NextNotified(HandlersOf(w), rec.notified, rec.hi)
         IN IF hi > Len(HandlersOf(w))
              THEN [rec EXCEPT !.st = "merge", !.hi = hi]
              ELSE [rec EXCEPT !.st = "handlers", !.hi = hi]
  ELSE rec

(***************************************************************************)
(* RunPlaybook, the dispatcher (tasks.go:1008-1122).                       *)
(***************************************************************************)
\* the state at the entry of RunPlaybook; broken is the set of services whose
\* files cannot be loaded
EngineStart(broken) ==
  /\ opts \in [failFast : BOOLEAN,
               forks : { EffectiveForks(f) : f \in 0..MaxForks },
               tags : { << >>, << "install" >> },
               skipTags : { << >> }]
  /\ mpc = "play"
  /\ mp = 1
  /\ ms = 1
  /\ mh = 1
  /\ sem = 0
  /\ wg = 0
  /\ worker = [w \in WorkerIds |-> IdleWorker]
  /\ abandoned = {}
  /\ allSummaries = << >>
  /\ overallFailed = FALSE
  /\ recapCount = 0
  /\ hrun = << >>
  /\ firstFail = {}
  /\ faults = 0
  /\ anyFailed = FALSE
  /\ result = "none"
  /\ loadErr = broken

\* a run in which every service loads
EngineInit == EngineStart({})

\* tasks.go:1029-1034  next play of the loop; plays failing the tag filter are skipped
MainPlay ==
  /\ mpc = "play"
  /\ IF mp > NPlays
       THEN /\ mpc' = "recap"
            /\ UNCHANGED << mp, ms >>
       ELSE IF ~matchesTags(Playbook[mp].tags, opts.tags, opts.skipTags)
         THEN /\ mp' = mp + 1
              /\ UNCHANGED << mpc, ms >>
         ELSE /\ mpc' = "service"
              /\ ms' = 1
              /\ UNCHANGED mp
  /\ UNCHANGED << opts, mh, sem, wg, worker, abandoned, allSummaries,
                  overallFailed, recapCount, hrun, firstFail, anyFailed, faults, result, loadErr, pvars, fvars,
                  hvars, dvars >>

\* tasks.go:1056-1064 and 1107-1109  next service of the play, or the end of the play;
\* a service that fails to load is reported and passed over (1058-1061)
MainService ==
  /\ mpc = "service"
  /\ IF ms > Len(Playbook[mp].services)
       THEN IF FailFastBreak
              THEN /\ mpc' = "recap"
                   /\ UNCHANGED << mp, ms, mh >>
              ELSE /\ mpc' = "play"
                   /\ mp' = mp + 1
                   /\ UNCHANGED << ms, mh >>
       ELSE IF LoadFails(Playbook[mp].services[ms])
         THEN /\ ms' = ms + 1
              /\ UNCHANGED << mpc, mp, mh >>
         ELSE /\ mpc' = "dispatch"
              /\ mh' = 1
              /\ UNCHANGED << mp, ms >>
  /\ UNCHANGED << opts, sem, wg, worker, abandoned, allSummaries,
                  overallFailed, recapCount, hrun, firstFail, anyFailed, faults, result, loadErr, pvars, fvars,
                  hvars, dvars >>

\* tasks.go:1066-1068  the loop is at host h: wg.Add(1), before a slot is asked for
MainAdd(h) ==
  /\ mpc = "dispatch"
  /\ mh = h
  /\ wg' = wg + 1
  /\ mpc' = "acquire"
  /\ UNCHANGED << opts, mp, ms, mh, sem, worker, abandoned, allSummaries, overallFailed,
                  recapCount, hrun, firstFail, anyFailed, faults, result, loadErr, pvars, fvars,
                  hvars, dvars >>

\* tasks.go:1069-1070, 1099  sem <- struct{}{} blocks until a slot is free; then
\* go func(h); after the last host the loop ends and RunPlaybook reaches wg.Wait()
MainDispatch(h) ==
  /\ mpc = "acquire"
  /\ mh = h
  /\ sem < opts.forks
  /\ sem' = sem + 1
  /\ worker' = [worker EXCEPT ![<<mp, ms, h>>] =
                  Settle(<<mp, ms, h>>,
                         [IdleWorker EXCEPT !.st = "tasks", !.ti = 1, !.hi = 1])]
  /\ mh' = mh + 1
  /\ mpc' = IF mh + 1 > NHosts THEN "wait" ELSE "dispatch"
  /\ UNCHANGED << opts, mp, ms, wg, abandoned, allSummaries, overallFailed,
                  recapCount, hrun, firstFail, anyFailed, faults, result, loadErr, pvars, fvars,
                  hvars, dvars >>

\* tasks.go:1100-1109  wg.Wait(), then the fail-fast breaks
MainWait ==
  /\ mpc = "wait"
  /\ WaitDone
  /\ IF FailFastBreak
       THEN /\ mpc' = "recap"
            /\ UNCHANGED ms
       ELSE /\ mpc' = "service"
            /\ ms' = ms + 1
  /\ UNCHANGED << opts, mp, mh, sem, wg, worker, abandoned, allSummaries,
                  overallFailed, recapCount, hrun, firstFail, anyFailed, faults, result, loadErr, pvars, fvars,
                  hvars, dvars >>

MainRecapSilent ==
  /\ mpc = "recap"
  /\ mpc' = "done"
  /\ result' = IF overallFailed THEN "error" ELSE "nil"
  /\ UNCHANGED << opts, mp, ms, mh, sem, wg, worker, abandoned, allSummaries,
                  overallFailed, recapCount, hrun, firstFail, anyFailed, faults,
                  loadErr, pvars, fvars,
                  hvars, dvars >>

\* tasks.go:1112-1121  printer.Recap and return
MainRecap ==
  /\ mpc = "recap"
  /\ mpc' = "done"
  /\ recapCount' = recapCount + 1
  /\ result' = IF overallFailed THEN "error" ELSE "nil"
  /\ UNCHANGED << opts, mp, ms, mh, sem, wg, worker, abandoned, allSummaries,
                  overallFailed, hrun, firstFail, anyFailed, faults, loadErr, pvars, fvars,
                  hvars, dvars >>

(***************************************************************************)
(* runHostTasks, one worker goroutine (tasks.go:932-1001, 1070-1098).      *)
(***************************************************************************)
\* tasks.go:951-978  the worker's state after task ti has been classified as class
AfterTask(w, class) ==
  LET me == worker[w]
      task == TasksOf(w)[me.ti]
      sum1 == Bump(me.sum, class)
  IN IF FailFastReturn(class)
       THEN [me EXCEPT !.sum = sum1, !.st = "merge", !.cut = TRUE]
       ELSE Settle(w, [me EXCEPT !.sum = sum1,
                                 !.notified = @ \cup Notifies(task, class),
                                 !.ti = @ + 1,
                                 !.st = "tasks"])

RecordFailure(w, class) ==
  /\ firstFail' = IF class = "failed" /\ opts.failFast
                    THEN firstFail \cup { <<w[1], w[2]>> }
                    ELSE firstFail
  /\ anyFailed' = (anyFailed \/ class = "failed")

TaskTagSkipUncounted(w) ==
  /\ worker[w].st = "tasks"
  /\ worker[w].ti <= Len(TasksOf(w))
  /\ ~matchesTags(TasksOf(w)[worker[w].ti].tags, opts.tags, opts.skipTags)
  /\ worker' = [worker EXCEPT ![w] = Settle(w, [@ EXCEPT !.ti = @ + 1])]
  /\ UNCHANGED << opts, mpc, mp, ms, mh, sem, wg, abandoned, allSummaries,
                  overallFailed, recapCount, hrun, firstFail, anyFailed, faults,
                  result, loadErr, pvars, fvars,
                  hvars, dvars >>

\* tasks.go:936-940  a task the tag filter excludes is counted skipped
TaskTagSkip(w) ==
  /\ worker[w].st = "tasks"
  /\ worker[w].ti <= Len(TasksOf(w))
  /\ ~matchesTags(TasksOf(w)[worker[w].ti].tags, opts.tags, opts.skipTags)
  /\ worker' = [worker EXCEPT ![w] =
                  Settle(w, [@ EXCEPT !.sum = Bump(@, "skipped"), !.ti = @ + 1])]
  /\ UNCHANGED << opts, mpc, mp, ms, mh, sem, wg, abandoned, allSummaries,
                  overallFailed, recapCount, hrun, firstFail, anyFailed, faults, result, loadErr, pvars, fvars,
                  hvars, dvars >>

\* tasks.go:883-889, 963-965  the when condition is falsy on this host
TaskWhenSkip(w) ==
  /\ worker[w].st = "tasks"
  /\ worker[w].ti <= Len(TasksOf(w))
  /\ LET task == TasksOf(w)[worker[w].ti]
     IN /\ matchesTags(task.tags, opts.tags, opts.skipTags)
        /\ task.when
        /\ worker' = [worker EXCEPT ![w] =
                        AfterTask(w, Classify(task, WhenSkipResult, FALSE))]
  /\ UNCHANGED << opts, mpc, mp, ms, mh, sem, wg, abandoned, allSummaries,
                  overallFailed, recapCount, hrun, firstFail, anyFailed, faults, result, loadErr, pvars, fvars,
                  hvars, dvars >>

\* tasks.go:891-906, 925  the backend invocation of the task starts
TaskInvoke(w) ==
  /\ worker[w].st = "tasks"
  /\ worker[w].ti <= Len(TasksOf(w))
  /\ matchesTags(TasksOf(w)[worker[w].ti].tags, opts.tags, opts.skipTags)
  /\ worker' = [worker EXCEPT ![w] = [@ EXCEPT !.st = "invoke"]]
  /\ UNCHANGED << opts, mpc, mp, ms, mh, sem, wg, abandoned, allSummaries,
                  overallFailed, recapCount, hrun, firstFail, anyFailed, faults, result, loadErr, pvars, fvars,
                  hvars, dvars >>

\* tasks.go:815-826, 848-849, 951-978  the invocation returns with or without error
TaskReturn(w, err) ==
  /\ err => faults < MaxFaults
  /\ faults' = IF err THEN faults + 1 ELSE faults
  /\ worker[w].st = "invoke"
  /\ LET task == TasksOf(w)[worker[w].ti]
         class == Classify(task, RunOnceResult(err), err)
     IN /\ worker' = [worker EXCEPT ![w] = AfterTask(w, class)]
        /\ RecordFailure(w, class)
  /\ UNCHANGED << opts, mpc, mp, ms, mh, sem, wg, abandoned, allSummaries,
                  overallFailed, recapCount, hrun, result, loadErr, pvars, fvars,
                  hvars, dvars >>

\* tasks.go:845-847  the deadline fires first; the invocation keeps running
TaskTimeout(w) ==
  /\ faults < MaxFaults
  /\ faults' = faults + 1
  /\ worker[w].st = "invoke"
  /\ LET task == TasksOf(w)[worker[w].ti]
         class == Classify(task, TimeoutResult, TRUE)
     IN /\ task.timeout
        /\ abandoned' = abandoned \cup { <<w, worker[w].ti>> }
        /\ worker' = [worker EXCEPT ![w] = AfterTask(w, class)]
        /\ RecordFailure(w, class)
  /\ UNCHANGED << opts, mpc, mp, ms, mh, sem, wg, allSummaries,
                  overallFailed, recapCount, hrun, result, loadErr, pvars, fvars,
                  hvars, dvars >>

\* tasks.go:841-844  an abandoned invocation finishes; its result is dropped
AbandonedFinish(a) ==
  /\ a \in abandoned
  /\ abandoned' = abandoned \ {a}
  /\ UNCHANGED << opts, mpc, mp, ms, mh, sem, wg, worker, allSummaries,
                  overallFailed, recapCount, hrun, firstFail, anyFailed, faults, result, loadErr, pvars, fvars,
                  hvars, dvars >>

\* tasks.go:985-987  a notified handler's command is invoked
HandlerInvoke(w) ==
  /\ worker[w].st = "handlers"
  /\ worker[w].hi <= Len(HandlersOf(w))
  /\ HandlersOf(w)[worker[w].hi] \in worker[w].notified
  /\ worker' = [worker EXCEPT ![w] = [@ EXCEPT !.st = "hinvoke"]]
  /\ LET k == << w[1], w[3], worker[w].hi >>
     IN hrun' = IF k \in DOMAIN hrun
                  THEN [hrun EXCEPT ![k] = @ + 1]
                  ELSE [x \in DOMAIN hrun \cup {k} |->
                          IF x = k THEN 1 ELSE hrun[x]]
  /\ UNCHANGED << opts, mpc, mp, ms, mh, sem, wg, abandoned, allSummaries,
                  overallFailed, recapCount, firstFail, anyFailed, faults, result, loadErr, pvars, fvars,
                  hvars, dvars >>

\* tasks.go:987-997  the handler returns and is classified failed | changed | ok
HandlerReturn(w, err) ==
  /\ err => faults < MaxFaults
  /\ faults' = IF err THEN faults + 1 ELSE faults
  /\ worker[w].st = "hinvoke"
  /\ LET res == RunOnceResult(err)
         class == IF err THEN "failed" ELSE IF res.changed THEN "changed" ELSE "ok"
     IN /\ worker' = [worker EXCEPT ![w] =
                        Settle(w, [@ EXCEPT !.sum = Bump(@, class),
                                            !.hi = @ + 1,
                                            !.st = "handlers"])]
        /\ RecordFailure(w, class)
  /\ UNCHANGED << opts, mpc, mp, ms, mh, sem, wg, abandoned, allSummaries,
                  overallFailed, recapCount, hrun, result, loadErr, pvars, fvars,
                  hvars, dvars >>

AddSummaryOverwrite(a, b) == b

\* tasks.go:1088-1092  prev.X += sum.X for the five counters
AddSummary(a, b) ==
  [ok |-> a.ok + b.ok, changed |-> a.changed + b.changed,
   failed |-> a.failed + b.failed, skipped |-> a.skipped + b.skipped,
   ignored |-> a.ignored + b.ignored]

MarksFailedOrIgnored(sum) == sum.failed + sum.ignored > 0

\* tasks.go:1094-1096  if sum.Failed > 0 { overallFailed = true }
MarksFailed(sum) == sum.failed > 0

\* tasks.go:1085-1097  the summary is merged into the recap under recapMu
WorkerMerge(w) ==
  /\ worker[w].st = "merge"
  /\ LET h == w[3]
         prev == IF h \in DOMAIN allSummaries THEN allSummaries[h] ELSE ZeroSummary
         new == AddSummary(prev, worker[w].sum)
     IN allSummaries' = [x \in DOMAIN allSummaries \cup {h} |->
                           IF x = h THEN new ELSE allSummaries[x]]
  /\ overallFailed' = (overallFailed \/ MarksFailed(worker[w].sum))
  /\ worker' = [worker EXCEPT ![w] = [@ EXCEPT !.st = "exit"]]
  /\ UNCHANGED << opts, mpc, mp, ms, mh, sem, wg, abandoned, recapCount,
                  hrun, firstFail, anyFailed, faults, result, loadErr, pvars, fvars,
                  hvars, dvars >>

WorkerReleaseKeepsSlot(w) ==
  /\ worker[w].st = "exit"
  /\ worker' = [worker EXCEPT ![w] = [@ EXCEPT !.st = "released"]]
  /\ UNCHANGED << opts, mpc, mp, ms, mh, sem, wg, abandoned, allSummaries,
                  overallFailed, recapCount, hrun, firstFail, anyFailed, faults, result, loadErr, pvars, fvars,
                  hvars, dvars >>

\* tasks.go:1072  the deferred call that runs first: <-sem gives the slot back
WorkerRelease(w) ==
  /\ worker[w].st = "exit"
  /\ sem' = sem - 1
  /\ worker' = [worker EXCEPT ![w] = [@ EXCEPT !.st = "released"]]
  /\ UNCHANGED << opts, mpc, mp, ms, mh, wg, abandoned, allSummaries,
                  overallFailed, recapCount, hrun, firstFail, anyFailed, faults, result, loadErr, pvars, fvars,
                  hvars, dvars >>

\* tasks.go:1071  the deferred call that runs last: wg.Done()
WorkerExit(w) ==
  /\ worker[w].st = "released"
  /\ wg' = wg - 1
  /\ worker' = [worker EXCEPT ![w] = [DoneWorker EXCEPT !.sum = worker[w].sum]]
  /\ UNCHANGED << opts, mpc, mp, ms, mh, sem, abandoned, allSummaries,
                  overallFailed, recapCount, hrun, firstFail, anyFailed, faults, result, loadErr, pvars, fvars,
                  hvars, dvars >>

WorkerStep(w) ==
  \/ TaskTagSkip(w)
  \/ TaskWhenSkip(w)
  \/ TaskInvoke(w)
  \/ \E err \in BOOLEAN : TaskReturn(w, err)
  \/ TaskTimeout(w)
  \/ HandlerInvoke(w)
  \/ \E err \in BOOLEAN : HandlerReturn(w, err)
  \/ WorkerMerge(w)
  \/ WorkerRelease(w)
  \/ WorkerExit(w)

EngineNext ==
  \/ MainPlay
  \/ MainService
  \/ \E h \in Hosts : MainAdd(h)
  \/ \E h \in Hosts : MainDispatch(h)
  \/ MainWait
  \/ MainRecap
  \/ \E w \in WorkerIds : WorkerStep(w)
  \/ \E a \in abandoned : AbandonedFinish(a)

(***************************************************************************)
(* ssh.Pool (ssh.go:92-198).                                               *)
(***************************************************************************)
Threads == 1..NThreads

Keys == 1..NKeys

NoClient == 0

IdleThread == [pc |-> "idle", k |-> 0, c |-> NoClient, saw |-> FALSE, n |-> 0]

NoResult == [res |-> "none", c |-> NoClient]

PoolFaults == nfail.cached + nfail.new + nfail.dial

\* ssh.go:99-102  NewPool: an empty pool
PoolInit ==
  /\ clients = << >>
  /\ created = << >>
  /\ closedC = {}
  /\ pth = [t \in Threads |-> IdleThread]
  /\ last = [t \in Threads |-> NoResult]
  /\ dials = 0
  /\ nfail = [cached |-> 0, new |-> 0, dial |-> 0]
  /\ failLog = {}
  /\ closes = 0
  /\ abandonedT = {}

\* the clients created for key k on which Close() has not been called
LiveFor(k) == { c \in DOMAIN created : created[c] = k /\ c \notin closedC }

Cached == { clients[k] : k \in DOMAIN clients }

\* an operation returns to its caller
Return(t, res) ==
  /\ pth' = [pth EXCEPT ![t] = [@ EXCEPT !.pc = "idle"]]
  /\ last' = [last EXCEPT ![t] = [res |-> res, c |-> pth[t].c]]
  /\ failLog' = IF pth[t].saw
                  THEN failLog \cup { [res |-> res, c |-> pth[t].c,
                                       cached |-> pth[t].c \in Cached] }
                  ELSE failLog

\* a worker that has not been given up and whose run is not over starts a call
\* on key k: the call is made, nothing of the pool is touched yet
Call(t, k, pc) ==
  /\ pth[t].pc = "idle"
  /\ pth[t].n < MaxCalls
  /\ closes = 0
  /\ t \notin abandonedT
  /\ pth' = [pth EXCEPT ![t] = [pc |-> pc, k |-> k, c |-> NoClient, saw |-> FALSE,
                                n |-> @.n + 1]]
  /\ UNCHANGED << clients, created, closedC, last, dials, nfail, failLog, closes,
                  abandonedT, evars, fvars,
                  hvars, dvars >>

\* tasks.go:805-807, ssh.go:145-146, 110-111  a command task, a script task or a
\* handler of a remote run calls opts.SSHPool.RunCommandOutput, which enters
\* Pool.session
CommandTask(t, k) == Call(t, k, "lookup")

\* ssh.go:112-117  the key is looked up under the mutex, whatever has happened
\* to the caller and to the pool since the call
PoolLookup(t) ==
  /\ pth[t].pc = "lookup"
  /\ pth' = [pth EXCEPT ![t] =
               IF @.k \in DOMAIN clients
                 THEN [@ EXCEPT !.pc = "sess1", !.c = clients[pth[t].k]]
                 ELSE [@ EXCEPT !.pc = "dial"]]
  /\ UNCHANGED << clients, created, closedC, last, dials, nfail, failLog, closes,
                  abandonedT, evars, fvars,
                  hvars, dvars >>

\* ssh.go:118-121  client.NewSession() on the cached client succeeds
PoolSessCachedOk(t) ==
  /\ pth[t].pc = "sess1"
  /\ pth[t].c \notin closedC
  /\ pth' = [pth EXCEPT ![t] = [@ EXCEPT !.pc = "run"]]
  /\ UNCHANGED << clients, created, closedC, last, dials, nfail, failLog, closes,
                  abandonedT, evars, fvars,
                  hvars, dvars >>

\* ssh.go:118-119, 122  client.NewSession() on the cached client fails
PoolSessCachedFail(t) ==
  /\ pth[t].pc = "sess1"
  /\ pth[t].c \in closedC \/ PoolFaults < MaxPoolFaults
  /\ nfail' = [nfail EXCEPT !.cached = @ + 1]
  /\ pth' = [pth EXCEPT ![t] = [@ EXCEPT !.pc = "evict", !.saw = TRUE]]
  /\ UNCHANGED << clients, created, closedC, last, dials, failLog, closes,
                  abandonedT, evars, fvars,
                  hvars, dvars >>

\* ssh.go:123-125  delete(p.clients, k) under the mutex
PoolEvict(t) ==
  /\ pth[t].pc = "evict"
  /\ clients' = [k \in DOMAIN clients \ {pth[t].k} |-> clients[k]]
  /\ pth' = [pth EXCEPT ![t] = [@ EXCEPT !.pc = "dial"]]
  /\ UNCHANGED << created, closedC, last, dials, nfail, failLog, closes,
                  abandonedT, evars, fvars,
                  hvars, dvars >>

\* ssh.go:128  newClient succeeds: a new client exists
PoolDialOk(t) ==
  /\ pth[t].pc = "dial"
  /\ dials' = dials + 1
  /\ created' = Append(created, pth[t].k)
  /\ pth' = [pth EXCEPT ![t] = [@ EXCEPT !.pc = "store", !.c = Len(created) + 1]]
  /\ UNCHANGED << clients, closedC, last, nfail, failLog, closes, abandonedT, evars, fvars,
                  hvars, dvars >>

\* ssh.go:128-131  newClient fails: the operation returns the error
PoolDialFail(t) ==
  /\ pth[t].pc = "dial"
  /\ PoolFaults < MaxPoolFaults
  /\ dials' = dials + 1
  /\ nfail' = [nfail EXCEPT !.dial = @ + 1]
  /\ Return(t, "dialerr")
  /\ UNCHANGED << clients, created, closedC, closes, abandonedT, evars, fvars,
                  hvars, dvars >>

PoolStoreNothing(t) ==
  /\ pth[t].pc = "store"
  /\ pth' = [pth EXCEPT ![t] = [@ EXCEPT !.pc = "sess2"]]
  /\ UNCHANGED << clients, created, closedC, last, dials, nfail, failLog, closes,
                  abandonedT, evars, fvars,
                  hvars, dvars >>

\* ssh.go:132-134  p.clients[k] = client under the mutex
PoolStore(t) ==
  /\ pth[t].pc = "store"
  /\ clients' = [k \in DOMAIN clients \cup {pth[t].k} |->
                   IF k = pth[t].k THEN pth[t].c ELSE clients[k]]
  /\ pth' = [pth EXCEPT ![t] = [@ EXCEPT !.pc = "sess2"]]
  /\ UNCHANGED << created, closedC, last, dials, nfail, failLog, closes,
                  abandonedT, evars, fvars,
                  hvars, dvars >>

\* ssh.go:136, 140  client.NewSession() on the new client succeeds
PoolSessNewOk(t) ==
  /\ pth[t].pc = "sess2"
  /\ pth[t].c \notin closedC
  /\ pth' = [pth EXCEPT ![t] = [@ EXCEPT !.pc = "run"]]
  /\ UNCHANGED << clients, created, closedC, last, dials, nfail, failLog, closes,
                  abandonedT, evars, fvars,
                  hvars, dvars >>

\* ssh.go:136-139  client.NewSession() on the new client fails: return the error
PoolSessNewFail(t) ==
  /\ pth[t].pc = "sess2"
  /\ pth[t].c \in closedC \/ PoolFaults < MaxPoolFaults
  /\ nfail' = [nfail EXCEPT !.new = @ + 1]
  /\ Return(t, "sesserr")
  /\ UNCHANGED << clients, created, closedC, dials, closes, abandonedT, evars, fvars,
                  hvars, dvars >>

\* ssh.go:150-152, 174-187  the session is used and closed; the operation returns
PoolFinish(t) ==
  /\ pth[t].pc = "run"
  /\ Return(t, "ok")
  /\ UNCHANGED << clients, created, closedC, dials, nfail, closes, abandonedT, evars, fvars,
                  hvars, dvars >>

\* tasks.go:845-847  the caller's deadline fires: the operation goes on unattended
PoolAbandon(t) ==
  /\ pth[t].pc # "idle"
  /\ t \notin abandonedT
  /\ closes = 0
  /\ abandonedT' = abandonedT \cup {t}
  /\ UNCHANGED << clients, created, closedC, pth, last, dials, nfail, failLog,
                  closes, evars, fvars,
                  hvars, dvars >>

\* tasks.go:1025-1027, ssh.go:191-198  RunPlaybook returns: every worker is done
\* (or stopped waiting), whether or not it made a call; the deferred Close closes
\* the cached clients
PoolClose ==
  /\ closes = 0
  /\ \A t \in Threads : pth[t].pc = "idle" \/ t \in abandonedT
  /\ closes' = closes + 1
  /\ closedC' = closedC \cup Cached
  /\ clients' = << >>
  /\ UNCHANGED << created, pth, last, dials, nfail, failLog, abandonedT, evars, fvars,
                  hvars, dvars >>

\* tasks.go:785-795, ssh.go:247-251  a copy task of a remote run calls
\* ssh.CopyFile, which reads the local file first: an error returns before
\* any dial
CopyTask(t, k) ==
  \/ Call(t, k, "hdial")
  \/ /\ pth[t].pc = "idle"
     /\ pth[t].n < MaxCalls
     /\ closes = 0
     /\ t \notin abandonedT
     /\ pth' = [pth EXCEPT ![t] = [pc |-> "idle", k |-> k, c |-> NoClient,
                                   saw |-> FALSE, n |-> @.n + 1]]
     /\ last' = [last EXCEPT ![t] = [res |-> "readerr", c |-> NoClient]]
     /\ UNCHANGED << clients, created, closedC, dials, nfail, failLog, closes,
                     abandonedT, evars, fvars, hvars, dvars >>

\* tasks.go:1077-1080, logger.go:92-96  fact gathering runs each of its commands
\* through ssh.RunCommandOutput
GatherRemote(t, k) == Call(t, k, "hdial")

\* ssh.go:206, 253  newClient of a stateless helper succeeds: a client of its
\* own, which the pool does not know
HelperDialOk(t) ==
  /\ pth[t].pc = "hdial"
  /\ dials' = dials + 1
  /\ created' = Append(created, pth[t].k)
  /\ pth' = [pth EXCEPT ![t] = [@ EXCEPT !.pc = "hsess", !.c = Len(created) + 1]]
  /\ UNCHANGED << clients, closedC, last, nfail, failLog, closes, abandonedT, evars, fvars,
                  hvars, dvars >>

\* ssh.go:206-209, 253-256  newClient of a stateless helper fails
HelperDialFail(t) ==
  /\ pth[t].pc = "hdial"
  /\ PoolFaults < MaxPoolFaults
  /\ dials' = dials + 1
  /\ nfail' = [nfail EXCEPT !.dial = @ + 1]
  /\ Return(t, "dialerr")
  /\ UNCHANGED << clients, created, closedC, closes, abandonedT, evars, fvars,
                  hvars, dvars >>

\* ssh.go:212, 216, 259, 263  client.NewSession() of the helper succeeds
HelperSessOk(t) ==
  /\ pth[t].pc = "hsess"
  /\ pth' = [pth EXCEPT ![t] = [@ EXCEPT !.pc = "hrun"]]
  /\ UNCHANGED << clients, created, closedC, last, dials, nfail, failLog, closes,
                  abandonedT, evars, fvars,
                  hvars, dvars >>

\* ssh.go:210, 212-215, 257, 259-262  client.NewSession() of the helper fails:
\* the deferred client.Close() runs and the error is returned
HelperSessFail(t) ==
  /\ pth[t].pc = "hsess"
  /\ PoolFaults < MaxPoolFaults
  /\ nfail' = [nfail EXCEPT !.new = @ + 1]
  /\ closedC' = closedC \cup { pth[t].c }
  /\ Return(t, "sesserr")
  /\ UNCHANGED << clients, created, dials, closes, abandonedT, evars, fvars,
                  hvars, dvars >>

\* ssh.go:210, 218-219, 257, 265-280  the command or the copy is over: the
\* deferred client.Close() runs and the helper returns
HelperFinish(t) ==
  /\ pth[t].pc = "hrun"
  /\ closedC' = closedC \cup { pth[t].c }
  /\ Return(t, "ok")
  /\ UNCHANGED << clients, created, dials, nfail, closes, abandonedT, evars, fvars,
                  hvars, dvars >>

\* the steps of a stateless helper after its call
HelperOps(t) ==
  \/ HelperDialOk(t)
  \/ HelperDialFail(t)
  \/ HelperSessOk(t)
  \/ HelperSessFail(t)
  \/ HelperFinish(t)

\* the steps of an operation of the pool after its call
PoolOps(t) ==
  \/ PoolLookup(t)
  \/ PoolSessCachedOk(t)
  \/ PoolSessCachedFail(t)
  \/ PoolEvict(t)
  \/ PoolDialOk(t)
  \/ PoolDialFail(t)
  \/ PoolStore(t)
  \/ PoolSessNewOk(t)
  \/ PoolSessNewFail(t)
  \/ PoolFinish(t)

PoolStep(t) ==
  \/ \E k \in Keys : CommandTask(t, k)
  \/ PoolOps(t)

(***************************************************************************)
(* The command line and dry-run (part_001:337-472, tasks.go:776-783,       *)
(* 1125-1181).                                                             *)
(*   adhoc       : -t is given (ad hoc command), otherwise -playbook       *)
(*   localFlag   : -local is given                                         *)
(*   cfgLocal    : run_locally of the config file                          *)
(*   kind        : what the task is: command, script or copy               *)
(***************************************************************************)
MainInputs ==
  { in \in [fn : {"main"}, adhoc : BOOLEAN, localFlag : BOOLEAN, cfgLocal : BOOLEAN,
            dryRun : BOOLEAN, gatherFacts : BOOLEAN,
            kind : {"command", "script", "copy"}] :
      in.adhoc => in.kind # "copy" }

\* part_001:339-347 (with -local) and 432-447: the RunOptions main builds
mainOptions(in) ==
  IF in.localFlag
    THEN [runLocally |-> TRUE, dryRun |-> in.dryRun, gatherFacts |-> FALSE]
    ELSE [runLocally |-> in.cfgLocal, dryRun |-> in.dryRun,
          gatherFacts |-> in.gatherFacts]

\* tasks.go:1173  opts := RunOptions{RunLocally: true}
RunLocalAdHocOptions == [runLocally |-> TRUE, dryRun |-> FALSE, gatherFacts |-> FALSE]

\* part_001:349-354, 449-459, 461-472  the options the called entry point works with:
\* RunLocalAdHocCommand takes the command only
EntryOptions(in) ==
  IF in.adhoc /\ in.localFlag THEN RunLocalAdHocOptions ELSE mainOptions(in)

\* tasks.go:776-813  what runOnce executes on the host: nothing in dry-run
\* mode, otherwise the copy, the script or the command
runOnce(o, kind) == IF o.dryRun THEN {} ELSE {kind}

\* tasks.go:1051-1054, 1076-1080  RunPlaybook gathers facts by running commands
\* on the host (locally or over SSH) when GatherFacts is set
GatherFacts(in, o) == IF ~in.adhoc /\ o.gatherFacts THEN {"facts"} ELSE {}

\* part_001:337-459  main parses the flags and builds the options
MainOptions ==
  /\ fin.fn = "main"
  /\ fout.fn = "none"
  /\ fout' = [fn |-> "main", pc |-> "opts", opts |-> EntryOptions(fin), effects |-> {}]
  /\ UNCHANGED << fin, evars, pvars, hvars, dvars >>

\* tasks.go:1008-1181  the entry point runs: what is executed on the hosts
MainRun ==
  /\ fout.fn = "main"
  /\ fout.pc = "opts"
  /\ fout' = [fout EXCEPT !.pc = "ran",
                          !.effects = GatherFacts(fin, fout.opts)
                                        \cup runOnce(fout.opts, fin.kind)]
  /\ UNCHANGED << fin, evars, pvars, hvars, dvars >>

(***************************************************************************)
(* matchesTags applied to arbitrary tag lists (tasks.go:652-671).          *)
(***************************************************************************)
TagNames == {"install", "deploy"}

TagLists == UNION { [1..n -> TagNames] : n \in 0..MaxTags }

MatchesTagsInputs ==
  [fn : {"matchesTags"}, taskTags : TagLists, filterTags : TagLists,
   skipTags : TagLists]

\* a call of matchesTags with the arguments fin
CallMatchesTags ==
  /\ fin.fn = "matchesTags"
  /\ fout.fn = "none"
  /\ fout' = [fn |-> "matchesTags",
              ret |-> matchesTags(fin.taskTags, fin.filterTags, fin.skipTags)]
  /\ UNCHANGED << fin, evars, pvars, hvars, dvars >>

(***************************************************************************)
(* Variable scopes (tasks.go:692-700, 882-895, 946-949, 1082).  A variable *)
(* map is a function from keys to values; the value a scope gives to a key *)
(* is written as the name of the scope.                                    *)
(***************************************************************************)
EmptyMap == [k \in {} |-> ""]

\* the map of one scope: it defines key when defined is true
ScopeMap(scope, key, defined) ==
  IF defined THEN [k \in {key} |-> scope] ELSE EmptyMap

RECURSIVE mergeVarsFirstWins(_)
mergeVarsFirstWins(maps) ==
  IF maps = << >> THEN EmptyMap
  ELSE LET m == Head(maps)
           rest == mergeVarsFirstWins(Tail(maps))
       IN [k \in DOMAIN m \cup DOMAIN rest |->
             IF k \in DOMAIN m THEN m[k] ELSE rest[k]]

RECURSIVE mergeVars(_)
\* tasks.go:692-700  for each map in order, out[k] = v: later maps override
mergeVars(maps) ==
  IF maps = << >> THEN EmptyMap
  ELSE LET out == mergeVars(SubSeq(maps, 1, Len(maps) - 1))
           m == maps[Len(maps)]
       IN [k \in DOMAIN out \cup DOMAIN m |->
             IF k \in DOMAIN m THEN m[k] ELSE out[k]]

\* tasks.go:681  template option missingkey=zero
Lookup(m, k) == IF k \in DOMAIN m THEN m[k] ELSE "<no value>"

\* tasks.go:1082  vars := mergeVars(play.Vars, groupVars, hostVars, hostFacts)
WorkerVars(in) ==
  mergeVars(<< ScopeMap("play", in.key, "play" \in in.defs),
              ScopeMap("group", in.key, "group" \in in.defs),
              ScopeMap("host", in.key, "host" \in in.defs),
              ScopeMap("facts", in.key, "facts" \in in.defs) >>)

\* tasks.go:946-949  vars[task.Register] = res.Output, by an earlier task
RegisteredVars(in) ==
  LET scope == WorkerVars(in)
  IN IF "registered" \in in.defs
       THEN [k \in DOMAIN scope \cup {in.key} |->
               IF k = in.key THEN "registered" ELSE scope[k]]
       ELSE scope

\* tasks.go:911  run(map[string]interface{}{"item": item}); tasks.go:925  run(nil)
LoopVars(in) == ScopeMap("item", "item", in.withItems)

\* tasks.go:892  merged := mergeVars(vars, loopVars)
MergedVars(in) == mergeVars(<< RegisteredVars(in), LoopVars(in) >>)

\* tasks.go:821  localVars := mergeVars(vars, {"output": output})
ChangedWhenVars(in) ==
  mergeVars(<< MergedVars(in), ScopeMap("cmdout", "output", TRUE) >>)

ExecuteTaskInputs ==
  [fn : {"executeTask"}, key : {"item", "output", "version"},
   defs : SUBSET {"play", "group", "host", "facts", "registered"},
   withItems : BOOLEAN]

(***************************************************************************)
(* Templates and conditions (tasks.go:677-690, 710-730).  An expression is *)
(* its source text and, when the text is one reference {{ .name }}, the    *)
(* name it refers to.                                                      *)
(***************************************************************************)
Literal(text) == [text |-> text, ref |-> ""]

Ref(name) == [text |-> "{{ ." \o name \o " }}", ref |-> name]

\* tasks.go:677-690  the text is returned as it is when the map is empty or the
\* text is empty, and rendered otherwise; with missingkey=zero on a
\* map[string]interface{} an absent key renders as "<no value>" (Lookup)
expandVars(s, scope) ==
  IF DOMAIN scope = {} \/ s.text = "" THEN s.text
  ELSE IF s.ref # "" THEN Lookup(scope, s.ref)
  ELSE s.text

\* tasks.go:883 (when, with vars), 771 (command, with merged), 822 (changed_when):
\* what the reference {{ .key }} renders to in each of them
CallExecuteTask ==
  /\ fin.fn = "executeTask"
  /\ fout.fn = "none"
  /\ fout' = [fn |-> "executeTask",
              when |-> expandVars(Ref(fin.key), RegisteredVars(fin)),
              command |-> expandVars(Ref(fin.key), MergedVars(fin)),
              changedWhen |-> expandVars(Ref(fin.key), ChangedWhenVars(fin))]
  /\ UNCHANGED << fin, evars, pvars, hvars, dvars >>

\* tasks.go:719, 728  strings.TrimSpace(strings.ToLower(result))
TrimLower(r) ==
  CASE r \in {"False", " false ", "FALSE"} -> "false"
    [] r \in {"No", " no "} -> "no"
    [] r = " 0 " -> "0"
    [] r \in {" ", "  "} -> ""
    [] r = "True" -> "true"
    [] OTHER -> r

\* tasks.go:720, 729
Truthy(r) == r # "" /\ r # "false" /\ r # "0" /\ r # "no"

\* tasks.go:711-721  (a template that parses and executes: err is nil)
evaluateCondition(when, scope) ==
  IF when.text = "" THEN TRUE
  ELSE Truthy(TrimLower(expandVars(when, scope)))

\* the variables a scope can define and the values it can give them
CondKeys == {"enabled", "version"}

CondValues == {"", "true", "False", " no ", "1.2"}

\* every scope over CondKeys, the empty scope included
CondScopes == UNION { [D -> CondValues] : D \in SUBSET CondKeys }

EvaluateConditionInputs ==
  [fn : {"evaluateCondition"},
   when : { Literal(t) : t \in {"", "true", "false", " 0 "} }
            \cup { Ref(k) : k \in CondKeys \cup {"missing"} },
   scope : CondScopes]

\* tasks.go:883  ok, err := evaluateCondition(task.When, vars)
CallEvaluateCondition ==
  /\ fin.fn = "evaluateCondition"
  /\ fout.fn = "none"
  /\ fout' = [fn |-> "evaluateCondition",
              rendered |-> expandVars(fin.when, fin.scope),
              ret |-> evaluateCondition(fin.when, fin.scope)]
  /\ UNCHANGED << fin, evars, pvars, hvars, dvars >>

(***************************************************************************)
(* One task through executeTask, runOnce and the classification switch     *)
(* (tasks.go:770-827, 882-889, 951-978), for a task without with_items,    *)
(* timeout and retries.  Output is a string here, because changed_when     *)
(* renders it.  The backend's answer (output, exit status) and the set of  *)
(* local files are inputs.                                                 *)
(***************************************************************************)
\* a text the template parser rejects: an action that is not closed
ParseErrText == "{{ .ref"

\* a text that parses and fails when executed: an index into a string
ExecErrText == "{{ index .ref 9 }}"

\* tasks.go:678-689  expandVars returns an error: the text is parsed and
\* executed only when the map is not empty and the text is not empty
TemplateErr(s, scope) ==
  DOMAIN scope # {} /\ s.text \in {ParseErrText, ExecErrText}

\* tasks.go:723-730  an error of expandVars is answered with false
isTruthy(expr, scope) ==
  ~TemplateErr(expr, scope) /\ Truthy(TrimLower(expandVars(expr, scope)))

\* filepath.Ext of the command texts of the model: the suffix from the last
\* dot of the text, "" when it has no dot
Ext(command) ==
  CASE command = "deploy.sh" -> ".sh"
    [] command = "deploy.py" -> ".py"
    [] command = Ref("script").text -> ".script }}"
    [] command = ParseErrText -> ".ref"
    [] command = ExecErrText -> ".ref 9 }}"
    [] command \in {"echo hi", "<no value>"} -> ""
    [] OTHER -> ""

\* utils.go:9-17  a script extension and os.Stat succeeds
IsScript(command, files) ==
  Ext(command) \in {".sh", ".bash", ".zsh"} /\ command \in files

\* os.ReadFile(path), the file exists; what a shell receives is either the
\* command string << "command", c >> or the content of a file
ReadFile(path) == << "content of", path >>

\* nothing is handed to a shell
NoSend == [via |-> "none", text |-> << >>]

\* tasks.go:797-813  what runOnce hands to which shell
Transport(cmd, o, files) ==
  IF o.runLocally
    THEN IF IsScript(cmd, files) THEN [via |-> "sh", text |-> << "command", cmd >>]
         ELSE [via |-> "sh -c", text |-> << "command", cmd >>]
  ELSE IF o.pool THEN [via |-> "pool", text |-> << "command", cmd >>]
  ELSE IF IsScript(cmd, files) THEN [via |-> "ssh", text |-> ReadFile(cmd)]
  ELSE [via |-> "ssh", text |-> << "command", cmd >>]

OnceResult(output, changed, failed) ==
  [output |-> output, changed |-> changed, failed |-> failed]

\* tasks.go:770-827  runOnce for a task without copy
RunOnceOf(task, scope, o, files, backend) ==
  IF TemplateErr(task.command, scope)
    THEN [res |-> OnceResult("", FALSE, TRUE), err |-> "template", sent |-> NoSend]
  ELSE IF o.dryRun
    THEN [res |-> OnceResult("", FALSE, FALSE), err |-> "", sent |-> NoSend]
  ELSE LET cmd == expandVars(task.command, scope)
           localVars == mergeVars(<< scope, [k \in {"output"} |-> backend.output] >>)
           changed == IF task.changedWhen.text # ""
                        THEN isTruthy(task.changedWhen, localVars)
                      ELSE ~backend.fails
       IN [res |-> OnceResult(backend.output, changed, backend.fails),
           err |-> IF backend.fails THEN "exit status 1" ELSE "",
           sent |-> Transport(cmd, o, files)]

\* tasks.go:711-718  evaluateCondition returns an error
WhenErr(task, scope) == task.when.text # "" /\ TemplateErr(task.when, scope)

\* tasks.go:882-906, 925  executeTask without with_items, timeout and retries
ExecuteTaskOf(task, scope, o, files, backend) ==
  IF WhenErr(task, scope)
    THEN [res |-> OnceResult("", FALSE, TRUE), err |-> "when eval", sent |-> NoSend]
  ELSE IF ~evaluateCondition(task.when, scope)
    THEN [res |-> OnceResult("", FALSE, FALSE), err |-> "", sent |-> NoSend]
  ELSE RunOnceOf(task, mergeVars(<< scope, EmptyMap >>), o, files, backend)

\* tasks.go:951-978  the switch of runHostTasks
ClassOf(task, ret) ==
  Classify([ignoreErrors |-> task.ignoreErrors, when |-> task.when.text # ""],
           Result(ret.res.output = "", ret.res.changed, ret.res.failed),
           ret.err # "")

RunTaskInputs ==
  [fn : {"runTask"},
   task : [command : {Literal("echo hi"), Literal("deploy.sh"), Literal("deploy.py"),
                      Ref("script"), Literal(ParseErrText), Literal(ExecErrText)},
           when : {Literal(""), Literal("true"), Literal("false"), Ref("enabled"),
                   Literal(ParseErrText)},
           changedWhen : {Literal(""), Literal("true"), Literal("false"),
                          Ref("output"), Literal(ParseErrText)},
           ignoreErrors : BOOLEAN],
   scope : { EmptyMap, [k \in {"script"} |-> "deploy.sh"],
             [k \in {"enabled"} |-> " no "] },
   opts : [dryRun : BOOLEAN, runLocally : BOOLEAN, pool : BOOLEAN],
   files : { {}, {"deploy.sh", "deploy.py"} },
   backend : [output : {"", "done"}, fails : BOOLEAN]]

\* tasks.go:944-978  one task is executed and classified
CallRunTask ==
  /\ fin.fn = "runTask"
  /\ fout.fn = "none"
  /\ LET ret == ExecuteTaskOf(fin.task, fin.scope, fin.opts, fin.files, fin.backend)
     IN fout' = [fn |-> "runTask", ret |-> ret, class |-> ClassOf(fin.task, ret)]
  /\ UNCHANGED << fin, evars, pvars, hvars, dvars >>

(***************************************************************************)
(* The vault (vault.go:21-76).  A string is its vault prefix, "" when it   *)
(* has none, and the rest: a text, or the base64 encoding of a sealed box. *)
(* The cipher is an ideal authenticated encryption: a box opens with the   *)
(* key that sealed it and with no other.                                   *)
(***************************************************************************)
\* vault.go:21
Prefix == "$FORVAULT;"

\* a string without the vault prefix
PlainText(text) == [prefix |-> "", body |-> << "text", text >>]

\* the prefix followed by something that is not base64
Garbled == [prefix |-> Prefix, body |-> << "text", "!!" >>]

deriveKeyConstant(password) == << "sha256", "" >>

\* vault.go:23-26  sha256.Sum256([]byte(password))
deriveKey(password) == << "sha256", password >>

\* vault.go:44  gcm.Seal(nonce, nonce, plaintext, nil): the nonce, then the box
Seal(key, nonce, plaintext) == << nonce, key, plaintext >>

\* vault.go:45  base64.StdEncoding.EncodeToString
Base64(data) == << "base64" >> \o data

\* vault.go:30-46  nonce is what rand.Reader gave
Encrypt(plaintext, password, nonce) ==
  [prefix |-> Prefix, body |-> Base64(Seal(deriveKey(password), nonce, plaintext))]

\* vault.go:50-76  the text and the error, "" for nil
Decrypt(ciphertext, password) ==
  IF ciphertext.prefix # Prefix THEN [text |-> ciphertext, err |-> ""]
  ELSE IF Head(ciphertext.body) # "base64"
    THEN [text |-> PlainText(""), err |-> "vault decode"]
  ELSE LET data == Tail(ciphertext.body)
       IN IF data[2] = deriveKey(password)
            THEN [text |-> data[3], err |-> ""]
          ELSE [text |-> PlainText(""), err |-> "vault decrypt"]

\* vault.go:79-81
IsEncrypted(str) == str.prefix = Prefix

Passwords == {"", "pw", "other"}

VaultInputs ==
  [fn : {"vault"}, p : {PlainText(""), PlainText("secret"), Garbled},
   w : Passwords, w2 : Passwords, nonce : {"n1", "n2"}]

\* vault.go:30-46  Encrypt(p, w)
CallEncrypt ==
  /\ fin.fn = "vault"
  /\ fout.fn = "none"
  /\ fout' = [fn |-> "vault", pc |-> "sealed",
              enc |-> Encrypt(fin.p, fin.w, fin.nonce)]
  /\ UNCHANGED << fin, evars, pvars, hvars, dvars >>

\* vault.go:50-76  Decrypt of the token with the password and with w2
CallDecrypt ==
  /\ fout.fn = "vault"
  /\ fout.pc = "sealed"
  /\ fout' = [fn |-> "vault", pc |-> "opened", enc |-> fout.enc,
              same |-> Decrypt(fout.enc, fin.w),
              other |-> Decrypt(fout.enc, fin.w2)]
  /\ UNCHANGED << fin, evars, pvars, hvars, dvars >>

(***************************************************************************)
(* main, config-driven execution (part_001:370-472): the vault password is *)
(* loaded, the credential fields of the config are decrypted, the inventory*)
(* is loaded and the task or playbook is run with the credentials.         *)
(***************************************************************************)
\* the content of the password files of the model; missing.pw does not exist
FileContent(file) ==
  CASE file = "vault.pw" -> "pw\n"
    [] file = "wrong.pw" -> " other "
    [] OTHER -> ""

\* strings.TrimSpace on the contents of the model
TrimSpace(text) ==
  CASE text = "pw\n" -> "pw"
    [] text = " other " -> "other"
    [] OTHER -> text

\* vault.go:84-90
LoadPassword(file) ==
  IF file = "missing.pw" THEN [password |-> "", err |-> "reading vault password file"]
  ELSE [password |-> TrimSpace(FileContent(file)), err |-> ""]

\* part_001:387-390  the flag wins over the config key
VaultPass(in) == IF in.flagVaultFile # "" THEN in.flagVaultFile ELSE in.cfgVaultFile

\* part_001:398  fields := []*string{&cfg.SSHPassword, &cfg.SSHKeyPath, &cfg.SSHUser}
Fields == << "sshPassword", "sshKeyPath", "sshUser" >>

\* part_001:400-407  one field: decrypted in place when it is a token
DecryptField(str, password) ==
  IF IsEncrypted(str) THEN Decrypt(str, password) ELSE [text |-> str, err |-> ""]

\* part_001:391-409  the config after the vault step and its error
DecryptConfig(cfg, file) ==
  IF file = "" THEN [cfg |-> cfg, err |-> ""]
  ELSE LET pw == LoadPassword(file)
           dec == [f \in DOMAIN cfg |-> DecryptField(cfg[f], pw.password)]
           bad == { i \in DOMAIN Fields : dec[Fields[i]].err # "" }
       IN IF pw.err # "" THEN [cfg |-> cfg, err |-> pw.err]
          ELSE IF bad # {}
            THEN [cfg |-> cfg, err |-> dec[Fields[CHOOSE i \in bad : \A j \in bad : i <= j]].err]
          ELSE [cfg |-> [f \in DOMAIN cfg |-> dec[f].text], err |-> ""]

\* tasks.go:736-750  the user, key path and password of the ssh.Config of a
\* host: the options, the user overridden by the host variable ansible_user
\* and then by ssh_user
Credentials(cfg, hostVars) ==
  << IF "ssh_user" \in DOMAIN hostVars THEN hostVars["ssh_user"]
     ELSE IF "ansible_user" \in DOMAIN hostVars THEN hostVars["ansible_user"]
     ELSE cfg.sshUser,
     cfg.sshKeyPath, cfg.sshPassword >>

\* the strings a config or inventory value may be: a plain text, a token
\* sealed with pw, a token whose plaintext starts with the prefix, a token
\* that is not base64
ConfigStrings ==
  { PlainText("value"), Encrypt(PlainText("value"), "pw", "n1"),
    Encrypt(Garbled, "pw", "n1"), Garbled }

ConfigInputs ==
  [fn : {"config"},
   cfg : [sshUser : ConfigStrings, sshKeyPath : ConfigStrings,
          sshPassword : ConfigStrings],
   cfgVaultFile : {"", "vault.pw"},
   flagVaultFile : {"", "wrong.pw", "missing.pw"},
   hostVars : { [k \in {} |-> Garbled] }
                \cup { [k \in {"ssh_user"} |-> v] :
                         v \in {PlainText("root"),
                                Encrypt(PlainText("root"), "pw", "n1")} }
                \cup { [k \in {"ansible_user"} |-> PlainText("admin")],
                       [k \in {"ansible_user", "ssh_user"} |->
                          IF k = "ssh_user" THEN PlainText("root")
                          ELSE PlainText("admin")] }]

\* part_001:386-409  the vault step: exit 1 on an error
ConfigVault ==
  /\ fin.fn = "config"
  /\ fout.fn = "none"
  /\ LET dec == DecryptConfig(fin.cfg, VaultPass(fin))
     IN fout' = [fn |-> "config", pc |-> IF dec.err # "" THEN "exit1" ELSE "vault",
                 cfg |-> dec.cfg, inventory |-> FALSE, creds |-> << >>]
  /\ UNCHANGED << fin, evars, pvars, hvars, dvars >>

\* part_001:411-425  the inventory is loaded: exit 1 on an error
ConfigInventory ==
  /\ fout.fn = "config"
  /\ fout.pc = "vault"
  /\ \E ok \in BOOLEAN :
       fout' = [fout EXCEPT !.pc = IF ok THEN "inventory" ELSE "exit1",
                            !.inventory = ok]
  /\ UNCHANGED << fin, evars, pvars, hvars, dvars >>

\* part_001:432-472, tasks.go:805  a task is executed on a host with the
\* credentials of the options and of the host
ConfigRun ==
  /\ fout.fn = "config"
  /\ fout.pc = "inventory"
  /\ fout' = [fout EXCEPT !.pc = "ran",
                          !.creds = Credentials(fout.cfg, fin.hostVars)]
  /\ UNCHANGED << fin, evars, pvars, hvars, dvars >>

(***************************************************************************)
(* LoadInventory (part_003:21-82).  A file is a sequence of lines, a line  *)
(* one of the texts of Lines; the string functions are given on them.      *)
(***************************************************************************)
Lines ==
  {"", "  ", "# note", "[web]", "[web:vars]", "[db]", "[]", "h1",
   "h2 ssh_port=22", " env=prod "}

\* part_003:38  strings.TrimSpace(scanner.Text())
TrimLine(raw) ==
  CASE raw = "  " -> ""
    [] raw = " env=prod " -> "env=prod"
    [] OTHER -> raw

\* part_003:40  strings.HasPrefix(line, "#")
IsComment(line) == line = "# note"

\* part_003:43  strings.HasPrefix(line, "[") && strings.HasSuffix(line, "]")
IsHeaderLine(line) == line \in {"[web]", "[web:vars]", "[db]", "[]"}

\* part_003:44  line[1 : len(line)-1]
Inner(line) ==
  CASE line = "[web]" -> "web"
    [] line = "[web:vars]" -> "web:vars"
    [] line = "[db]" -> "db"
    [] OTHER -> ""

IsVarsHeaderNever(inner) == FALSE

\* part_003:45  strings.HasSuffix(inner, ":vars")
IsVarsHeader(inner) == inner = "web:vars"

\* part_003:46  strings.TrimSuffix(inner, ":vars")
TrimVars(inner) == IF inner = "web:vars" THEN "web" ELSE inner

\* part_003:72  strings.Fields(line)
FieldsOf(line) ==
  IF line = "h2 ssh_port=22" THEN << "h2", "ssh_port=22" >> ELSE << line >>

\* part_003:57-58, 78-79  strings.Cut(part, "=") at the first "=", both sides
\* trimmed; a text without "=" is the key of the value ""
Cut(part) ==
  CASE part = "ssh_port=22" -> << "ssh_port", "22" >>
    [] part = "h2 ssh_port=22" -> << "h2 ssh_port", "22" >>
    [] part = "env=prod" -> << "env", "prod" >>
    [] OTHER -> << part, "" >>

\* a map with one more entry, the last write winning
Put(m, key, val) ==
  [k \in DOMAIN m \cup {key} |-> IF k = key THEN val ELSE m[k]]

RECURSIVE VarsOf(_)
\* part_003:77-80  the variables of the fields after the address
VarsOf(parts) ==
  IF parts = << >> THEN EmptyMap
  ELSE LET kv == Cut(parts[Len(parts)])
       IN Put(VarsOf(SubSeq(parts, 1, Len(parts) - 1)), kv[1], kv[2])

\* part_003:71-82
parseHostLine(line) ==
  LET parts == FieldsOf(line)
  IN [address |-> parts[1], vars |-> VarsOf(Tail(parts))]

\* the value of a Go map at a key, with the zero value for an absent key
At(m, key, zero) == IF key \in DOMAIN m THEN m[key] ELSE zero

\* part_003:37-63  one line through the body of the scanner loop
ScanLine(st, raw) ==
  LET line == TrimLine(raw)
  IN IF line = "" \/ IsComment(line) THEN st
     ELSE IF IsHeaderLine(line)
       THEN LET inner == Inner(line)
            IN IF IsVarsHeader(inner)
                 THEN [st EXCEPT !.group = TrimVars(inner), !.isVarsSection = TRUE]
               ELSE [st EXCEPT !.group = inner, !.isVarsSection = FALSE]
     ELSE IF st.group # ""
       THEN IF st.isVarsSection
              THEN LET kv == Cut(line)
                   IN [st EXCEPT !.groupVars =
                         Put(@, st.group, Put(At(@, st.group, EmptyMap), kv[1], kv[2]))]
            ELSE [st EXCEPT !.hosts =
                    Put(@, st.group, Append(At(@, st.group, << >>), parseHostLine(line)))]
     ELSE st

InventoryInputs ==
  [fn : {"LoadInventory"}, file : UNION { [1..n -> Lines] : n \in 0..MaxLines }]

\* part_003:28-35  the file is open, nothing scanned
ScanStart ==
  /\ fin.fn = "LoadInventory"
  /\ fout.fn = "none"
  /\ fout' = [fn |-> "LoadInventory", pc |-> "scan", i |-> 1, group |-> "",
              isVarsSection |-> FALSE, hosts |-> EmptyMap, groupVars |-> EmptyMap]
  /\ UNCHANGED << fin, evars, pvars, hvars, dvars >>

\* part_003:37-63  scanner.Scan() gives the next line
ScanNext ==
  /\ fout.fn = "LoadInventory"
  /\ fout.pc = "scan"
  /\ fout.i <= Len(fin.file)
  /\ fout' = [ScanLine(fout, fin.file[fout.i]) EXCEPT !.i = fout.i + 1]
  /\ UNCHANGED << fin, evars, pvars, hvars, dvars >>

\* part_003:65  the file is at its end: return inv
ScanEnd ==
  /\ fout.fn = "LoadInventory"
  /\ fout.pc = "scan"
  /\ fout.i > Len(fin.file)
  /\ fout' = [fout EXCEPT !.pc = "done"]
  /\ UNCHANGED << fin, evars, pvars, hvars, dvars >>

(***************************************************************************)
(* runHostTasks and executeTask on one host (tasks.go:829-1000), with the  *)
(* loop over with_items, the timeout and the retries of each iteration.    *)
(*   when     : the when expression                                        *)
(*   items    : the with_items list                                        *)
(*   timeout  : the timeout string, "" for none                            *)
(*   retries  : the number of retries                                      *)
(*   register : the register variable, "" for none                         *)
(* A TaskResult is its Output (a sequence of output pieces, so that += is  *)
(* concatenation), Changed and Failed.  An error is a tuple, empty for nil.*)
(***************************************************************************)
HostTask(name, notify, ignore, tags, when, items, timeout, retries, register) ==
  [name |-> name, notify |-> notify, ignoreErrors |-> ignore, tags |-> tags,
   when |-> when, items |-> items, timeout |-> timeout, retries |-> retries,
   register |-> register]

NoErr == << >>

\* the error of a command that failed, told apart by the call that produced it
ExitErr(item, attempt) == << "exit status 1", item, attempt >>

\* tasks.go:847  fmt.Errorf("timed out after %s", timeout)
TimeoutErr(timeout) == << "timed out after", timeout >>

\* TaskResult{}
EmptyResult == [output |-> << >>, changed |-> FALSE, failed |-> FALSE]

\* tasks.go:815-826  the result of runOnce for a command without changed_when
CommandResult(ok) ==
  [output |-> IF ok THEN << "stdout" >> ELSE << "stderr" >>, changed |-> ok,
   failed |-> ~ok]

\* tasks.go:846-847  TaskResult{Failed: true}
DeadlineResult == [output |-> << >>, changed |-> FALSE, failed |-> TRUE]

\* tasks.go:986  hTask := Task{Name: h.Name, Command: h.Command}
HandlerTask(name) ==
  HostTask(name, NoNotify, FALSE, << >>, Literal(""), << >>, "", 0, "")

\* the task or handler executeTask is running
CurrentTask ==
  IF rht.pc = "hexec" THEN HandlerTask(fin.handlers[rht.hi]) ELSE fin.tasks[rht.ti]

\* the item of the iteration in execution, 0 when the task has no with_items
CurrentItem == IF ext.ii = 0 THEN 0 ELSE CurrentTask.items[ext.ii]

\* tasks.go:908-911, 925  the first iteration starts: run(item) or run(nil)
FirstIteration(task) ==
  [pc |-> "invoke", ii |-> IF Len(task.items) > 0 THEN 1 ELSE 0, attempt |-> 0,
   combined |-> EmptyResult, abandoned |-> ext.abandoned]

\* the state of runHostTasks at its entry (tasks.go:933-934); vars is the map
\* the caller built, here empty
HostStart ==
  [pc |-> "loop", ti |-> 1, hi |-> 1, notified |-> {}, summary |-> ZeroSummary,
   vars |-> EmptyMap, res |-> EmptyResult, err |-> NoErr]

\* executeTask is not running; abandoned invocations may still be
ExecIdle(running) ==
  [pc |-> "idle", ii |-> 0, attempt |-> 0, combined |-> EmptyResult,
   abandoned |-> running]

\* nothing recorded about the task in execution
NoLog ==
  [started |-> << >>, calls |-> 0, afterOk |-> FALSE,
   last |-> << EmptyResult, NoErr >>, iterErr |-> << >>, hran |-> << >>,
   late |-> FALSE]

ToHandlersAll(frame, from) ==
  [frame EXCEPT !.hi = from,
                !.pc = IF from > Len(fin.handlers) THEN "return" ELSE "handlers"]

\* tasks.go:979-984, 998-1000  after the task loop or after a handler: on to the
\* next notified handler, or return
ToHandlers(frame, from) ==
  LET hi == NextNotified(fin.handlers, frame.notified, from)
  IN [frame EXCEPT !.hi = hi,
                   !.pc = IF hi > Len(fin.handlers) THEN "return" ELSE "handlers"]

\* tasks.go:936, 979  on to the next task, or to the handlers after the last
NextTask(frame) ==
  IF frame.ti < Len(fin.tasks)
    THEN [frame EXCEPT !.ti = @ + 1, !.pc = "loop"]
  ELSE ToHandlers([frame EXCEPT !.ti = @ + 1], 1)

\* tasks.go:937-940  the task does not pass the tag filter
HostTagSkip ==
  /\ rht.pc = "loop"
  /\ ~matchesTags(fin.tasks[rht.ti].tags, fin.tags, << >>)
  /\ rht' = NextTask([rht EXCEPT !.summary = Bump(@, "skipped")])
  /\ UNCHANGED << fin, fout, ext, xlog, evars, pvars, dvars >>

\* tasks.go:944, 883-889, 908-911, 925  executeTask is called: a falsy when
\* returns TaskResult{}, nil; otherwise the first iteration starts
HostExecute ==
  /\ rht.pc = "loop"
  /\ LET task == fin.tasks[rht.ti]
     IN /\ matchesTags(task.tags, fin.tags, << >>)
        /\ IF evaluateCondition(task.when, rht.vars)
             THEN /\ rht' = [rht EXCEPT !.pc = "exec"]
                  /\ ext' = FirstIteration(task)
                  /\ xlog' = [NoLog EXCEPT !.started = << ext'.ii >>, !.calls = 1,
                                           !.late = xlog.late]
             ELSE /\ rht' = [rht EXCEPT !.pc = "classify", !.res = EmptyResult,
                                        !.err = NoErr]
                  /\ xlog' = [NoLog EXCEPT !.late = xlog.late]
                  /\ UNCHANGED ext
  /\ UNCHANGED << fin, fout, evars, pvars, dvars >>

RetryAgainAfterSuccess(task, attempt, err) ==
  task.retries > 0 /\ attempt < task.retries

\* tasks.go:866-878, 902-905  runWithRetry calls the closure again: the task has
\* retries, the call failed and attempts are left
RetryAgain(task, attempt, err) ==
  task.retries > 0 /\ err # NoErr /\ attempt < task.retries

\* tasks.go:912-918  the iteration's result is folded into the combined result
Combine(combined, res, err) ==
  [output |-> combined.output \o res.output,
   changed |-> combined.changed \/ res.changed,
   failed |-> combined.failed \/ err # NoErr]

LoopStopsNever(task, err) == FALSE

\* tasks.go:916-920  a failing iteration ends the loop unless ignore_errors
LoopStops(task, err) == err # NoErr /\ ~task.ignoreErrors

\* executeTask returns (res, err) to runHostTasks
ExecReturn(e, res, err) ==
  /\ rht' = [rht EXCEPT !.pc = IF rht.pc = "hexec" THEN "hclassify" ELSE "classify",
                        !.res = res, !.err = err]
  /\ ext' = ExecIdle(e.abandoned)

\* tasks.go:873-878, 905, 908-925  a call of the closure has returned (res, err):
\* retry, or end the iteration and go on with the next item, or return
EndCall(e, res, err) ==
  LET task == CurrentTask
      log == [xlog EXCEPT !.last = << res, err >>]
  IN IF RetryAgain(task, e.attempt, err)
       THEN /\ ext' = [e EXCEPT !.attempt = @ + 1]
            /\ xlog' = [log EXCEPT !.calls = @ + 1,
                                   !.afterOk = @ \/ err = NoErr]
            /\ UNCHANGED rht
     ELSE IF e.ii = 0
       THEN /\ ExecReturn(e, res, err)
            /\ xlog' = [log EXCEPT !.iterErr = Append(@, err)]
     ELSE LET combined == Combine(e.combined, res, err)
          IN IF LoopStops(task, err)
               THEN /\ ExecReturn(e, combined, err)
                    /\ xlog' = [log EXCEPT !.iterErr = Append(@, err)]
             ELSE IF e.ii < Len(task.items)
               THEN /\ ext' = [e EXCEPT !.ii = @ + 1, !.attempt = 0,
                                        !.combined = combined]
                    /\ xlog' = [log EXCEPT !.iterErr = Append(@, err),
                                           !.started = Append(@, e.ii + 1),
                                           !.calls = 1, !.afterOk = FALSE]
                    /\ UNCHANGED rht
             ELSE /\ ExecReturn(e, combined, NoErr)
                  /\ xlog' = [log EXCEPT !.iterErr = Append(@, err)]

\* tasks.go:842-843, 848-849, 894  the invocation returns before any deadline
CallReturns(ok) ==
  /\ rht.pc \in {"exec", "hexec"}
  /\ ext.pc = "invoke"
  /\ EndCall(ext, CommandResult(ok),
             IF ok THEN NoErr ELSE ExitErr(CurrentItem, ext.attempt))
  /\ UNCHANGED << fin, fout, evars, pvars, dvars >>

\* tasks.go:845-847  the deadline passes first: the attempt fails with the
\* timeout error and the invocation is left running
DeadlineFires ==
  /\ rht.pc \in {"exec", "hexec"}
  /\ ext.pc = "invoke"
  /\ CurrentTask.timeout # ""
  /\ EndCall([ext EXCEPT !.abandoned = @ + 1], DeadlineResult,
             TimeoutErr(CurrentTask.timeout))
  /\ UNCHANGED << fin, fout, evars, pvars, dvars >>

AbandonedReturnsCounted ==
  /\ ext.abandoned > 0
  /\ ext' = [ext EXCEPT !.abandoned = @ - 1]
  /\ xlog' = [xlog EXCEPT !.late = TRUE]
  /\ rht' = [rht EXCEPT !.summary = Bump(@, "changed")]
  /\ UNCHANGED << fin, fout, evars, pvars, dvars >>

\* tasks.go:841-844  an abandoned invocation ends: its result goes into the
\* buffered channel, which nobody reads
AbandonedReturns ==
  /\ ext.abandoned > 0
  /\ ext' = [ext EXCEPT !.abandoned = @ - 1]
  /\ xlog' = [xlog EXCEPT !.late = TRUE]
  /\ UNCHANGED << fin, fout, rht, evars, pvars, dvars >>

\* tasks.go:946-949  vars[task.Register] = res.Output
Register(task, scope, res) ==
  IF task.register = "" THEN scope
  ELSE [k \in DOMAIN scope \cup {task.register} |->
          IF k = task.register THEN res.output ELSE scope[k]]

\* tasks.go:951-978  the switch of runHostTasks applied to executeTask's return
HostClass(task, res, err) ==
  Classify([ignoreErrors |-> task.ignoreErrors, when |-> task.when.text # ""],
           Result(res.output = << >>, res.changed, res.failed), err # NoErr)

\* tasks.go:946-979  the register write, the classification, the notification
\* and the fail-fast return that follow executeTask
HostClassify ==
  /\ rht.pc = "classify"
  /\ LET task == fin.tasks[rht.ti]
         class == HostClass(task, rht.res, rht.err)
         frame == [rht EXCEPT !.vars = Register(task, @, rht.res),
                              !.summary = Bump(@, class),
                              !.notified = @ \cup Notifies(task, class),
                              !.res = EmptyResult, !.err = NoErr]
     IN rht' = IF class = "failed" /\ fin.failFast
                 THEN [frame EXCEPT !.pc = "return"]
               ELSE NextTask(frame)
  /\ UNCHANGED << fin, fout, ext, xlog, evars, pvars, dvars >>

\* tasks.go:981-987  the next notified handler is executed
HandlerExecute ==
  /\ rht.pc = "handlers"
  /\ rht' = [rht EXCEPT !.pc = "hexec"]
  /\ ext' = FirstIteration(HandlerTask(fin.handlers[rht.hi]))
  /\ xlog' = [NoLog EXCEPT !.started = << 0 >>, !.calls = 1,
                           !.hran = Append(xlog.hran, fin.handlers[rht.hi]),
                           !.late = xlog.late]
  /\ UNCHANGED << fin, fout, evars, pvars, dvars >>

\* tasks.go:988-998  the handler's outcome is counted
HandlerClassify ==
  /\ rht.pc = "hclassify"
  /\ LET class == IF rht.err # NoErr THEN "failed"
                  ELSE IF rht.res.changed THEN "changed" ELSE "ok"
     IN rht' = ToHandlers([rht EXCEPT !.summary = Bump(@, class),
                                      !.res = EmptyResult, !.err = NoErr],
                          rht.hi + 1)
  /\ UNCHANGED << fin, fout, ext, xlog, evars, pvars, dvars >>

\* the inputs: a first task of any shape, a second plain task that is tagged
\* deploy and notifies the first handler of the play, two handlers
HostInputs ==
  [fn : {"runHostTasks"},
   tasks : { << HostTask("T1", notify, ignore, << "install" >>, when,
                         [i \in 1..n |-> i], timeout, retries, register),
                HostTask("T2", "K1", FALSE, << "deploy" >>, Literal(""), << >>,
                         "", 0, "") >> :
             notify \in {NoNotify, "K2"}, ignore \in BOOLEAN,
             when \in {Literal(""), Literal("true"), Literal("false")},
             n \in 0..MaxItems, timeout \in {"", "1s"}, retries \in 0..MaxRetries,
             register \in {"", "out"} },
   handlers : { << "K1", "K2" >> },
   failFast : BOOLEAN,
   tags : { << >>, << "install" >> }]

(***************************************************************************)
(* The variable maps of the workers of one play (tasks.go:1056-1100,       *)
(* 932-1000): two services run one after the other on two hosts; every     *)
(* worker builds its own map with mergeVars and runHostTasks writes the    *)
(* registered outputs into it.  The output of a task names the service,    *)
(* the host and the task that produced it.  A task is its register name,   *)
(* "" for none; after the tasks of a service one handler runs.             *)
(***************************************************************************)
ScopeHosts == {"h1", "h2"}

ScopeServices == 1..2

\* the output of task ti of service s on host h
OutputOf(s, h, ti) == << s, h, ti >>

\* tasks.go:1082  vars := mergeVars(play.Vars, groupVars, hostVars, hostFacts)
WorkerScope(in, h) ==
  mergeVars(<< [k \in {"env"} |-> << "play" >>], EmptyMap,
              [k \in {"addr"} |-> << "host", h >>], EmptyMap >>)

\* the registered outputs a map holds
RegisteredIn(scope) ==
  { scope[k] : k \in { x \in DOMAIN scope : Len(scope[x]) = 3 } }

ScopeInputs ==
  [fn : {"scope"},
   tasks : [ScopeServices -> [1..2 -> {"", "out"}]]]

\* tasks.go:1056-1064  the play starts with its first service
ScopeBegin ==
  /\ fin.fn = "scope"
  /\ fout.fn = "none"
  /\ fout' = [fn |-> "scope", svc |-> 1,
              w |-> [h \in ScopeHosts |-> [pc |-> "idle", ti |-> 1, vars |-> EmptyMap]],
              log |-> {}]
  /\ UNCHANGED << fin, evars, pvars, hvars, dvars >>

\* tasks.go:1066-1083  the worker of a host starts with a map of its own
ScopeDispatch(h) ==
  /\ fout.fn = "scope"
  /\ fout.svc \in ScopeServices
  /\ fout.w[h].pc = "idle"
  /\ fout' = [fout EXCEPT !.w[h] = [pc |-> "run", ti |-> 1,
                                     vars |-> WorkerScope(fin, h)]]
  /\ UNCHANGED << fin, evars, pvars, hvars, dvars >>

\* what a task or handler of host h sees, recorded when it runs
Seen(h) ==
  [s |-> fout.svc, h |-> h, ti |-> fout.w[h].ti,
   seen |-> RegisteredIn(fout.w[h].vars)]

ScopeTaskShared(h) ==
  /\ fout.fn = "scope"
  /\ fout.w[h].pc = "run"
  /\ fout.w[h].ti <= 2
  /\ LET ti == fout.w[h].ti
         task == [register |-> fin.tasks[fout.svc][ti]]
         res == [output |-> OutputOf(fout.svc, h, ti)]
     IN fout' = [fout EXCEPT
                   !.log = @ \cup {Seen(h)},
                   !.w = [g \in ScopeHosts |->
                            [@[g] EXCEPT !.vars = Register(task, @, res),
                                         !.ti = IF g = h THEN ti + 1 ELSE @]]]
  /\ UNCHANGED << fin, evars, pvars, hvars, dvars >>

\* tasks.go:936-949  the next task of the worker runs with the worker's map
\* and its output is registered in that map
ScopeTask(h) ==
  /\ fout.fn = "scope"
  /\ fout.w[h].pc = "run"
  /\ fout.w[h].ti <= 2
  /\ LET ti == fout.w[h].ti
         task == [register |-> fin.tasks[fout.svc][ti]]
         res == [output |-> OutputOf(fout.svc, h, ti)]
     IN fout' = [fout EXCEPT !.log = @ \cup {Seen(h)},
                             !.w[h].vars = Register(task, @, res),
                             !.w[h].ti = ti + 1]
  /\ UNCHANGED << fin, evars, pvars, hvars, dvars >>

\* tasks.go:981-1000  the handler runs with the worker's map; the worker ends
ScopeHandler(h) ==
  /\ fout.fn = "scope"
  /\ fout.w[h].pc = "run"
  /\ fout.w[h].ti = 3
  /\ fout' = [fout EXCEPT !.log = @ \cup {Seen(h)},
                          !.w[h] = [pc |-> "done", ti |-> 1, vars |-> EmptyMap]]
  /\ UNCHANGED << fin, evars, pvars, hvars, dvars >>

\* tasks.go:1100  wg.Wait() returns: on to the next service
ScopeWait ==
  /\ fout.fn = "scope"
  /\ fout.svc \in ScopeServices
  /\ \A h \in ScopeHosts : fout.w[h].pc = "done"
  /\ fout' = [fout EXCEPT !.svc = @ + 1,
                          !.w = [h \in ScopeHosts |-> [@[h] EXCEPT !.pc = "idle"]]]
  /\ UNCHANGED << fin, evars, pvars, hvars, dvars >>

(***************************************************************************)
(* LoadServiceTasksWithDeps (tasks.go:616-646).  The recursion of          *)
(* loadWithDeps is a stack of frames: the service, the index of the next   *)
(* dependency of its meta, and the list `all` built so far.  A task is the *)
(* pair of its service and its position in the service's own list.         *)
(***************************************************************************)
Services == {"A", "B", "C"}

\* tasks.go:603-614  the own task list of a service
OwnTasks(name) == << << name, 1 >>, << name, 2 >> >>

\* the dependency lists a meta file may hold: up to MaxDeps distinct names in
\* any order, or one name twice
DepLists ==
  { q \in UNION { [1..n -> Services] : n \in 0..MaxDeps } :
      \A i, j \in DOMAIN q : i # j => q[i] # q[j] }
  \cup { << s, s >> : s \in Services }

LoadInputs == [fn : {"LoadServiceTasksWithDeps"}, deps : [Services -> DepLists]]

\* tasks.go:617-619  the call has not started
DepsStartState ==
  [pc |-> "call", stack |-> << >>, visited |-> {}, ret |-> << >>, disc |-> << >>,
   open |-> << >>]

\* a new frame of loadWithDeps (tasks.go:625-632)
Frame(name) == [name |-> name, di |-> 1, all |-> << >>]

\* the names of the frames on the stack
OnStack == { ld.stack[i].name : i \in 1..Len(ld.stack) }

\* tasks.go:618, 622-625  loadWithDeps(servicesPath, serviceName, map[string]bool{})
DepsStart ==
  /\ ld.pc = "call"
  /\ ld' = [ld EXCEPT !.pc = "run", !.stack = << Frame("A") >>, !.visited = {"A"},
                      !.disc = << "A" >>, !.open = << {} >>]
  /\ UNCHANGED << fin, fout, evars, pvars, hvars >>

\* tasks.go:633-634, 622-625  the next dependency has not been visited: recurse
DepsEnter ==
  /\ ld.pc = "run"
  /\ LET top == ld.stack[Len(ld.stack)]
         deps == fin.deps[top.name]
     IN /\ top.di <= Len(deps)
        /\ deps[top.di] \notin ld.visited
        /\ ld' = [ld EXCEPT !.stack = Append(@, Frame(deps[top.di])),
                            !.visited = @ \cup {deps[top.di]},
                            !.disc = Append(@, deps[top.di]),
                            !.open = Append(@, OnStack)]
  /\ UNCHANGED << fin, fout, evars, pvars, hvars >>

DepsRevisitReloads ==
  /\ ld.pc = "run"
  /\ LET n == Len(ld.stack)
         top == ld.stack[n]
         deps == fin.deps[top.name]
     IN /\ top.di <= Len(deps)
        /\ deps[top.di] \in ld.visited
        /\ ld' = [ld EXCEPT !.stack[n].di = @ + 1,
                            !.stack[n].all = @ \o OwnTasks(deps[top.di])]
  /\ UNCHANGED << fin, fout, evars, pvars, hvars >>

\* tasks.go:633-638, 622-624  the next dependency was visited before: the call
\* returns nil, nil and nothing is appended
DepsRevisit ==
  /\ ld.pc = "run"
  /\ LET n == Len(ld.stack)
         top == ld.stack[n]
         deps == fin.deps[top.name]
     IN /\ top.di <= Len(deps)
        /\ deps[top.di] \in ld.visited
        /\ ld' = [ld EXCEPT !.stack[n].di = @ + 1]
  /\ UNCHANGED << fin, fout, evars, pvars, hvars >>

DepsReturnOwnFirst ==
  /\ ld.pc = "run"
  /\ LET n == Len(ld.stack)
         top == ld.stack[n]
         tasks == OwnTasks(top.name) \o top.all
     IN /\ top.di > Len(fin.deps[top.name])
        /\ IF n = 1
             THEN ld' = [ld EXCEPT !.pc = "done", !.stack = << >>, !.ret = tasks]
           ELSE ld' = [ld EXCEPT !.stack =
                         [SubSeq(@, 1, n - 1) EXCEPT ![n - 1].di = @ + 1,
                                                     ![n - 1].all = @ \o tasks]]
  /\ UNCHANGED << fin, fout, evars, pvars, hvars >>

\* tasks.go:638, 641-645  all dependencies are done: the own tasks are loaded and
\* append(all, own...) is returned to the caller, which appends it to its list
DepsReturn ==
  /\ ld.pc = "run"
  /\ LET n == Len(ld.stack)
         top == ld.stack[n]
         tasks == top.all \o OwnTasks(top.name)
     IN /\ top.di > Len(fin.deps[top.name])
        /\ IF n = 1
             THEN ld' = [ld EXCEPT !.pc = "done", !.stack = << >>, !.ret = tasks]
           ELSE ld' = [ld EXCEPT !.stack =
                         [SubSeq(@, 1, n - 1) EXCEPT ![n - 1].di = @ + 1,
                                                     ![n - 1].all = @ \o tasks]]
  /\ UNCHANGED << fin, fout, evars, pvars, hvars >>

\* no host runner and no loader is under study
HostIdle ==
  /\ rht = [pc |-> "idle"]
  /\ ext = [pc |-> "idle"]
  /\ xlog = [pc |-> "idle"]

DepsIdle == ld = [pc |-> "idle"]

(***************************************************************************)
(* Specifications.                                                         *)
(***************************************************************************)
\* the engine is not running
EngineIdle ==
  /\ opts = [failFast |-> FALSE, forks |-> DefaultForks, tags |-> << >>,
             skipTags |-> << >>]
  /\ mpc = "done"
  /\ mp = 1
  /\ ms = 1
  /\ mh = 1
  /\ sem = 0
  /\ wg = 0
  /\ worker = [w \in WorkerIds |-> IdleWorker]
  /\ abandoned = {}
  /\ allSummaries = << >>
  /\ overallFailed = FALSE
  /\ recapCount = 0
  /\ hrun = << >>
  /\ firstFail = {}
  /\ faults = 0
  /\ anyFailed = FALSE
  /\ result = "none"
  /\ loadErr = {}

\* no function is under study
FnIdle ==
  /\ fin = [fn |-> "none"]
  /\ fout = [fn |-> "none"]
  /\ HostIdle
  /\ DepsIdle

Init == EngineInit /\ PoolInit /\ FnIdle

Next == EngineNext

Spec == Init /\ [][Next]_vars

\* the dispatcher goroutine: RunPlaybook itself
MainStep ==
  \/ MainPlay
  \/ MainService
  \/ \E h \in Hosts : MainAdd(h)
  \/ \E h \in Hosts : MainDispatch(h)
  \/ MainWait
  \/ MainRecap

\* the scheduler does not stop while a goroutine can take a step, and an
\* invocation in progress returns or, for a task with a timeout, meets its
\* deadline; an abandoned invocation need not ever finish
SpecLive ==
  /\ Init
  /\ [][Next]_vars
  /\ WF_vars(MainStep \/ \E w \in WorkerIds : WorkerStep(w))

InitPool == PoolInit /\ EngineIdle /\ FnIdle

NextPool ==
  \/ \E t \in Threads : PoolStep(t)
  \/ \E t \in Threads : PoolAbandon(t)
  \/ PoolClose

\* runs in which the files of one service cannot be loaded
InitLoad ==
  /\ \E service \in {"A", "B", "C"} : EngineStart({service})
  /\ PoolInit
  /\ FnIdle

SpecLoad == InitLoad /\ [][Next]_vars

SpecPool == InitPool /\ [][NextPool]_vars

\* one goroutine calls the pool; all its operations use one key
NextPoolSeq ==
  \/ CommandTask(1, 1)
  \/ PoolOps(1)
  \/ PoolClose

SpecPoolSeq == InitPool /\ [][NextPoolSeq]_vars

InitMain ==
  /\ fin \in MainInputs
  /\ fout = [fn |-> "none"]
  /\ EngineIdle
  /\ PoolInit
  /\ HostIdle
  /\ DepsIdle

NextMain == MainOptions \/ MainRun

SpecMain == InitMain /\ [][NextMain]_vars

InitTags ==
  /\ fin \in MatchesTagsInputs
  /\ fout = [fn |-> "none"]
  /\ EngineIdle
  /\ PoolInit
  /\ HostIdle
  /\ DepsIdle

NextTags == CallMatchesTags

SpecTags == InitTags /\ [][NextTags]_vars

InitVars ==
  /\ fin \in ExecuteTaskInputs
  /\ fout = [fn |-> "none"]
  /\ EngineIdle
  /\ PoolInit
  /\ HostIdle
  /\ DepsIdle

NextVars == CallExecuteTask

SpecVars == InitVars /\ [][NextVars]_vars

InitCond ==
  /\ fin \in EvaluateConditionInputs
  /\ fout = [fn |-> "none"]
  /\ EngineIdle
  /\ PoolInit
  /\ HostIdle
  /\ DepsIdle

NextCond == CallEvaluateCondition

SpecCond == InitCond /\ [][NextCond]_vars

InitOnce ==
  /\ fin \in RunTaskInputs
  /\ fout = [fn |-> "none"]
  /\ EngineIdle
  /\ PoolInit
  /\ HostIdle
  /\ DepsIdle

NextOnce == CallRunTask

SpecOnce == InitOnce /\ [][NextOnce]_vars

InitVault ==
  /\ fin \in VaultInputs
  /\ fout = [fn |-> "none"]
  /\ EngineIdle
  /\ PoolInit
  /\ HostIdle
  /\ DepsIdle

NextVault == CallEncrypt \/ CallDecrypt

SpecVault == InitVault /\ [][NextVault]_vars

InitConfig ==
  /\ fin \in ConfigInputs
  /\ fout = [fn |-> "none"]
  /\ EngineIdle
  /\ PoolInit
  /\ HostIdle
  /\ DepsIdle

NextConfig == ConfigVault \/ ConfigInventory \/ ConfigRun

SpecConfig == InitConfig /\ [][NextConfig]_vars

InitInventory ==
  /\ fin \in InventoryInputs
  /\ fout = [fn |-> "none"]
  /\ EngineIdle
  /\ PoolInit
  /\ HostIdle
  /\ DepsIdle

NextInventory == ScanStart \/ ScanNext \/ ScanEnd

SpecInventory == InitInventory /\ [][NextInventory]_vars

InitScope ==
  /\ fin \in ScopeInputs
  /\ fout = [fn |-> "none"]
  /\ EngineIdle
  /\ PoolInit
  /\ HostIdle
  /\ DepsIdle

NextScope ==
  \/ ScopeBegin
  \/ \E h \in ScopeHosts : ScopeDispatch(h)
  \/ \E h \in ScopeHosts : ScopeTask(h)
  \/ \E h \in ScopeHosts : ScopeHandler(h)
  \/ ScopeWait

SpecScope == InitScope /\ [][NextScope]_vars

\* one call of runHostTasks
InitHost ==
  /\ fin \in HostInputs
  /\ fout = [fn |-> "none"]
  /\ rht = HostStart
  /\ ext = ExecIdle(0)
  /\ xlog = NoLog
  /\ EngineIdle
  /\ PoolInit
  /\ DepsIdle

NextHost ==
  \/ HostTagSkip
  \/ HostExecute
  \/ \E ok \in BOOLEAN : CallReturns(ok)
  \/ DeadlineFires
  \/ AbandonedReturns
  \/ HostClassify
  \/ HandlerExecute
  \/ HandlerClassify

SpecHost == InitHost /\ [][NextHost]_vars

\* one call of LoadServiceTasksWithDeps for service A, for every dependency
\* graph over the services; the call is never suspended for ever
InitDeps ==
  /\ fin \in LoadInputs
  /\ fout = [fn |-> "none"]
  /\ ld = DepsStartState
  /\ EngineIdle
  /\ PoolInit
  /\ HostIdle

NextDeps ==
  \/ DepsStart
  \/ DepsEnter
  \/ DepsRevisit
  \/ DepsReturn

SpecDeps == InitDeps /\ [][NextDeps]_vars /\ WF_vars(NextDeps)

\* the remote operations one worker performs on its host during a run, followed
\* by the deferred Pool.Close
NextConn ==
  \/ GatherRemote(1, 1)
  \/ CommandTask(1, 1)
  \/ CopyTask(1, 1)
  \/ PoolOps(1)
  \/ HelperOps(1)
  \/ PoolClose

SpecConn == InitPool /\ [][NextConn]_vars

(***************************************************************************)
(* Properties of RunPlaybook (checked under Spec).                         *)
(***************************************************************************)
PosOf(w) == << w[1], w[2] >>

Running(w) == worker[w].st \notin {"idle", "done"}

\* the worker has returned from runHostTasks
Returned(w) == worker[w].st \in {"merge", "exit", "released"}

\* the worker went through its whole task list and its whole handler list
Complete(w) ==
  /\ worker[w].ti = Len(TasksOf(w)) + 1
  /\ worker[w].hi = Len(HandlersOf(w)) + 1

\* backend invocations started by the workers of position q and not yet finished
InFlight(q) ==
  Cardinality({ w \in WorkerIds : PosOf(w) = q /\ worker[w].st \in {"invoke", "hinvoke"} })
  + Cardinality({ a \in abandoned : PosOf(a[1]) = q })

\* nothing of a service or play after a position with a recorded failure ever started
NoLaterDispatch ==
  \A q \in firstFail : \A w \in WorkerIds :
    Before(q, PosOf(w)) =>
      /\ worker[w].st = "idle"
      /\ \A a \in abandoned : a[1] # w

\* C1: for every play, host and handler of the play, the handler's command is
\* executed on the host at most once during the play, over all services of
\* the play.  (Violated: the notified set is per service worker.)
C1_HandlerOncePerPlay == \A k \in DOMAIN hrun : hrun[k] <= 1

\* C2: under fail_fast, once a worker of service S has recorded a failure, no
\* worker is dispatched and no task is executed for a later service or play;
\* the workers of S on other hosts that did not fail run to completion.
C2_FailFastBoundary ==
  /\ NoLaterDispatch
  /\ \A w \in WorkerIds :
       (Returned(w) /\ worker[w].sum.failed = 0) => Complete(w)

\* C2 witness: fail_fast, the worker of host 1 in the first service was cut by
\* a failure, and the worker of host 2 in the same service is running a handler.
C2_Witness ==
  /\ opts.failFast
  /\ << 1, 1 >> \in firstFail
  /\ worker[<< 1, 1, 1 >>].cut
  /\ worker[<< 1, 1, 2 >>].st = "hinvoke"

\* C3 as stated: every worker that returns from runHostTasks, the one on which
\* a task failed included, has processed every task of its list and then its
\* notified handlers.  (Violated under fail_fast by the failing worker.)
C3_FailingWorkerContinues == \A w \in WorkerIds : Returned(w) => Complete(w)

\* C3 amended: a failed task stops the worker on which it occurred, under
\* fail_fast only and at its first failure, before its remaining tasks and
\* before every handler; any other worker processes all its tasks and then
\* its handlers; no worker of a later service or play is dispatched.
C3_OnlyFailingWorkerStops ==
  /\ \A w \in WorkerIds :
       Returned(w) =>
         IF worker[w].cut
           THEN /\ opts.failFast
                /\ worker[w].sum.failed = 1
                /\ worker[w].ti <= Len(TasksOf(w))
                /\ worker[w].hi = 1
           ELSE Complete(w)
  /\ NoLaterDispatch

\* C3 witness: the worker of host 1 returned at its first task with the second
\* task unprocessed, while the worker of host 2 is executing its second task.
C3_Witness ==
  /\ Returned(<< 1, 1, 1 >>)
  /\ worker[<< 1, 1, 1 >>].cut
  /\ worker[<< 1, 1, 1 >>].ti = 1
  /\ worker[<< 1, 1, 2 >>].st = "invoke"
  /\ worker[<< 1, 1, 2 >>].ti = 2

\* C4: within one service at most forks backend invocations are started and
\* not yet finished, those whose timeout elapsed included.  (Violated: an
\* invocation abandoned at its deadline runs on while the worker goes on.)
C4_InFlightAtMostForks == \A q \in Pos : InFlight(q) <= opts.forks

\* C5: on one host no execution of a later task of the list is running while
\* an execution of an earlier task, timed out or not, is still running.
\* (Violated: the abandoned invocation of T1 overlaps T2.)
C5_TaskOrder ==
  \A a \in abandoned :
    ~ (worker[a[1]].st = "invoke" /\ worker[a[1]].ti > a[2])

\* C6: while a worker of some service is running, every worker of every
\* earlier service or play has finished and its summary is in the recap.
C6_ServiceBarrier ==
  \A w \in WorkerIds :
    Running(w) =>
      \A v \in WorkerIds :
        Before(PosOf(v), PosOf(w)) =>
          /\ worker[v].st \in {"idle", "done"}
          /\ worker[v].st = "done" => v[3] \in DOMAIN allSummaries

\* C6 witness: a worker of the second service is executing a task and both
\* workers of the first service are done.
C6_Witness ==
  /\ worker[<< 1, 2, 1 >>].st = "invoke"
  /\ worker[<< 1, 1, 1 >>].st = "done"
  /\ worker[<< 1, 1, 2 >>].st = "done"

\* C13: in a run in which every service loads, RunPlaybook returns an error
\* exactly when some task or handler outcome was classified failed; errors of
\* tasks with ignore_errors alone leave the result nil.
C13_ErrorIffFailed ==
  /\ result = "none" <=> mpc # "done"
  /\ mpc = "done" => (result = "error" <=> anyFailed)

\* C13 witness: the run has returned nil although a task with ignore_errors
\* ended in an error on some host.
C13_Witness ==
  /\ mpc = "done"
  /\ result = "nil"
  /\ \E h \in DOMAIN allSummaries : allSummaries[h].ignored > 0

\* C14: a run that has returned has emitted the recap exactly once, and the
\* recap is emitted only when no worker is running any more, with or without
\* failures and with or without a fail-fast cut.
C14_RecapOnce ==
  /\ recapCount <= 1
  /\ mpc = "done" => recapCount = 1
  /\ recapCount = 1 => (mpc = "done" /\ \A w \in WorkerIds : ~Running(w))

\* C14 witness: fail-fast cut the run short after a failure in the first
\* play (the second play was never dispatched) and the recap was emitted.
C14_Witness ==
  /\ mpc = "done"
  /\ recapCount = 1
  /\ opts.failFast
  /\ overallFailed
  /\ \A h \in Hosts : worker[<< 2, 1, h >>].st = "idle"

\* the workers of host h that have merged their summary
MergedFor(h) == { w \in WorkerIds : w[3] = h /\ worker[w].st \in {"exit", "released", "done"} }

RECURSIVE SumOver(_)
\* the counter-wise sum of the summaries the workers of S returned
SumOver(S) ==
  IF S = {} THEN ZeroSummary
  ELSE LET w == CHOOSE x \in S : TRUE
           rest == SumOver(S \ {w})
       IN [changed |-> worker[w].sum.changed + rest.changed,
           failed |-> worker[w].sum.failed + rest.failed,
           ignored |-> worker[w].sum.ignored + rest.ignored,
           ok |-> worker[w].sum.ok + rest.ok,
           skipped |-> worker[w].sum.skipped + rest.skipped]

\* C15: each counter of each host in the recap is the sum of that counter
\* over the summaries of the workers that ran for the host, in every service,
\* and a host is in the recap exactly when a worker ran for it.
C15_RecapIsSum ==
  \A h \in Hosts :
    /\ h \in DOMAIN allSummaries <=> MergedFor(h) # {}
    /\ h \in DOMAIN allSummaries => allSummaries[h] = SumOver(MergedFor(h))

\* C15 witness: the recap has been emitted after three workers with non-empty
\* summaries ran for host 1, and workers of both hosts ran at the same time.
C15_Witness ==
  /\ mpc = "done"
  /\ \A q \in Pos : worker[<< q[1], q[2], 1 >>].st = "done"
  /\ \A q \in Pos : worker[<< q[1], q[2], 1 >>].sum # ZeroSummary
  /\ opts.forks > 1

\* the worker has executed a task: some outcome other than skipped is counted
Executed(w) == worker[w].sum.changed + worker[w].sum.failed + worker[w].sum.ok > 0

\* C18 as stated: with the tag filter {install}, in the play without
\* play-level tags (play 2, tasks T4 [install] and T5 [deploy]) every host
\* executes the install task and counts the deploy task as skipped.
\* (Violated: the play itself does not pass the filter and is skipped.)
C18_UntaggedPlayRuns ==
  (mpc = "done" /\ opts.tags = << "install" >> /\ ~overallFailed) =>
    \A h \in Hosts :
      /\ worker[<< 2, 1, h >>].st = "done"
      /\ worker[<< 2, 1, h >>].sum.skipped = 1
      /\ Executed(<< 2, 1, h >>)

\* C18 amended: with the tag filter {install}, in a play whose own tags pass
\* the filter (play 1, first service: T1 [deploy], T2 [install]) every host
\* executes the install task only, and the deploy task adds 1 to skipped; the
\* play without tags is skipped as a whole.
C18_TaggedPlayFilters ==
  opts.tags = << "install" >> =>
    \A h \in Hosts :
      /\ worker[<< 1, 1, h >>].st = "invoke" => worker[<< 1, 1, h >>].ti = 2
      /\ \A a \in abandoned : a[1] = << 1, 1, h >> => a[2] = 2
      /\ worker[<< 1, 1, h >>].ti = 2 =>
           (worker[<< 1, 1, h >>].sum.skipped = 1
            /\ (Executed(<< 1, 1, h >>) => Returned(<< 1, 1, h >>)))
      /\ (worker[<< 1, 1, h >>].ti = 3 \/ worker[<< 1, 1, h >>].st = "done") =>
           (worker[<< 1, 1, h >>].sum.skipped = 1 /\ Executed(<< 1, 1, h >>))
      /\ worker[<< 2, 1, h >>].st = "idle"

\* C18 witness: the filtered run is over; on host 1 the first service counted
\* one skipped task and one changed task, and play 2 never started.
C18_Witness ==
  /\ opts.tags = << "install" >>
  /\ mpc = "done"
  /\ worker[<< 1, 1, 1 >>].st = "done"
  /\ worker[<< 1, 1, 1 >>].sum.skipped = 1
  /\ worker[<< 1, 1, 1 >>].sum.changed >= 1
  /\ worker[<< 2, 1, 1 >>].st = "idle"

\* C20: a step in which a task's when condition is falsy on a host starts no
\* backend invocation, adds exactly 1 to the worker's skipped counter and
\* nothing to the others, and records no handler notification.
C20_WhenSkipFrame ==
  [][\A w \in WorkerIds :
       TaskWhenSkip(w) =>
         /\ worker'[w].sum = Bump(worker[w].sum, "skipped")
         /\ worker'[w].notified = worker[w].notified
         /\ worker'[w].st \notin {"invoke", "hinvoke"}
         /\ InFlight(PosOf(w))' = InFlight(PosOf(w))
         /\ abandoned' = abandoned
         /\ hrun' = hrun]_vars

\* C20 witness: on host 1 the only task of the second service (with a when
\* condition and a notify) was skipped by its condition: the worker returned
\* with skipped = 1, every other counter 0 and nothing notified.
C20_Witness ==
  /\ worker[<< 1, 2, 1 >>].st = "merge"
  /\ worker[<< 1, 2, 1 >>].sum = Bump(ZeroSummary, "skipped")
  /\ worker[<< 1, 2, 1 >>].notified = {}
  /\ worker[<< 1, 2, 1 >>].hi = Len(HandlersOf(<< 1, 2, 1 >>)) + 1

(***************************************************************************)
(* Properties of ssh.Pool.                                                 *)
(***************************************************************************)
\* no operation is between creating a client and caching it
NoneStoring == \A t \in Threads : pth[t].pc # "store"

\* C7 (SpecPool): for every key at most one client created for it is not yet
\* closed, and it is the cached one.  (Violated: two goroutines that both miss
\* the cache both dial; an evicted client is never closed.)
C7_OneLiveClientPerKey ==
  \A k \in Keys :
    /\ Cardinality(LiveFor(k)) <= 1
    /\ NoneStoring => \A c \in LiveFor(k) : k \in DOMAIN clients /\ clients[k] = c

\* C8 (SpecPoolSeq): sequential operations on one key.  With no failure the
\* pool dials once.  With exactly one failure, a session open on the cached
\* client, the pool dials twice in total and the operation that saw the
\* failure returns a session of the new client, which is the cached one.
C8_PoolReuse ==
  /\ PoolFaults = 0 => dials <= 1
  /\ (PoolFaults = 0 /\ last[1].res # "none") => (dials = 1 /\ last[1].res = "ok")
  /\ (nfail.cached = 1 /\ PoolFaults = 1 /\ failLog # {}) =>
       /\ dials = 2
       /\ failLog = { [res |-> "ok", c |-> 2, cached |-> TRUE] }

\* C8 witness: all operations have returned, one of them saw the cached
\* client fail, and nothing else failed.
C8_Witness ==
  /\ pth[1].pc = "idle"
  /\ pth[1].n = MaxCalls
  /\ nfail.cached = 1
  /\ PoolFaults = 1
  /\ failLog # {}

\* C9 (SpecPoolSeq): when an operation has returned a session-open error, the
\* client on which the session open failed is not cached.  (Violated: a
\* client dialed in the same call stays cached.)
C9_EvictedOnSessionError ==
  \A t \in Threads :
    (pth[t].pc = "idle" /\ last[t].res = "sesserr") => last[t].c \notin Cached

\* C10 (SpecPoolSeq): the pool is closed at most once and, once it is closed,
\* every client it created has been closed.  (Violated: an evicted client is
\* dropped from the map without Close.)
C10_AllClosedAtTeardown ==
  /\ closes <= 1
  /\ closes = 1 => \A c \in DOMAIN created : c \in closedC

\* C12 (SpecLoad): when a service of a play cannot be loaded, no task of a
\* later service or play is executed and RunPlaybook returns an error.
\* (Violated: the service is passed over, the run goes on and returns nil.)
C12_LoadErrorAborts ==
  /\ \A q \in Pos : \A w \in WorkerIds :
       (LoadFails(Playbook[q[1]].services[q[2]]) /\ Before(q, PosOf(w)))
         => worker[w].st = "idle"
  /\ (mpc = "done" /\ ~opts.failFast /\ Len(opts.tags) = 0) => result = "error"

\* C16 (SpecMain): with the dry-run option nothing is executed on any host, in
\* playbook mode, ad hoc mode and local ad hoc mode.  (Violated: the local ad
\* hoc entry point does not receive the option; fact gathering ignores it.)
C16_DryRunExecutesNothing ==
  (fout.fn = "main" /\ fout.pc = "ran" /\ fin.dryRun) => fout.effects = {}

\* the set of the tags of a list
TagSet(tags) == { tags[i] : i \in 1..Len(tags) }

\* C17 (SpecTags): matchesTags returns true exactly when (the filter is empty
\* or the task shares a tag with the filter) and the task shares no tag with
\* the skip list.
C17_MatchesTags ==
  fout.fn = "matchesTags" =>
    (fout.ret <=>
       /\ (fin.filterTags = << >> \/ TagSet(fin.taskTags) \cap TagSet(fin.filterTags) # {})
       /\ TagSet(fin.taskTags) \cap TagSet(fin.skipTags) = {})

\* C17 witness: the task's tag is both in the filter and in the skip list, and
\* matchesTags returned false.
C17_Witness ==
  /\ fout.fn = "matchesTags"
  /\ fin.taskTags = << "deploy", "install" >>
  /\ fin.filterTags = << "install" >>
  /\ fin.skipTags = << "install" >>
  /\ ~fout.ret

\* the precedence order of the scopes, lowest first
ScopeOrder == << "play", "group", "host", "facts", "registered", "item" >>

\* the scopes that define the key of the call
DefinedIn(in) ==
  in.defs \cup (IF in.withItems /\ in.key = "item" THEN {"item"} ELSE {})

\* the highest scope of the first n of the order that defines the key
Highest(in, n) ==
  LET idx == { i \in 1..n : ScopeOrder[i] \in DefinedIn(in) }
  IN IF idx = {} THEN "<no value>"
     ELSE ScopeOrder[CHOOSE i \in idx : \A j \in idx : j <= i]

\* C19 as stated (SpecVars): for a key defined in more than one scope, the
\* command and the conditions (when, changed_when) of a task see the value of
\* the highest scope in play < group < host < facts < registered < item.
\* (Violated: when is evaluated before a loop item is bound; in changed_when
\* the key output is the output of the command.)
C19_PrecedenceEverywhere ==
  (fout.fn = "executeTask" /\ Cardinality(DefinedIn(fin)) > 1) =>
    /\ fout.command = Highest(fin, 6)
    /\ fout.when = Highest(fin, 6)
    /\ fout.changedWhen = Highest(fin, 6)

\* C19 amended (SpecVars): the command sees the highest of the six scopes;
\* changed_when does too, except that output is the command's output; when
\* sees the highest of play < group < host < facts < registered.
C19_Precedence ==
  (fout.fn = "executeTask" /\ Cardinality(DefinedIn(fin)) > 1) =>
    /\ fout.command = Highest(fin, 6)
    /\ fout.changedWhen = IF fin.key = "output" THEN "cmdout" ELSE Highest(fin, 6)
    /\ fout.when = Highest(fin, 5)

\* C19 witness: the key item is defined in all six scopes; the command saw the
\* loop item and when saw the registered output.
C19_Witness ==
  /\ fout.fn = "executeTask"
  /\ fin.key = "item"
  /\ Cardinality(DefinedIn(fin)) = 6
  /\ fout.command = "item"
  /\ fout.when = "registered"

\* connections opened so far to key k
ConnectionsTo(k) == { c \in DOMAIN created : created[c] = k }

\* C11 (SpecConn): in a run over SSH in which no session open fails, at most
\* one connection is dialed per user@host:port, whatever remote operations
\* (fact gathering, command, script and copy tasks, handlers) the run performs.
\* (Violated: copy tasks and fact gathering dial a connection of their own.)
C11_OneConnectionPerHost ==
  (nfail.cached = 0 /\ nfail.new = 0) =>
    \A k \in Keys : Cardinality(ConnectionsTo(k)) <= 1

(***************************************************************************)
(* Properties of runHostTasks and executeTask on one host (SpecHost).      *)
(***************************************************************************)
\* the outcomes counted as executed successfully
Succeeded(frame) == frame.summary.ok + frame.summary.changed

\* C21: the vars map changes only in a step that classifies the task ok or
\* changed; a task that failed, whose error was ignored or that was skipped by
\* its when condition leaves the map as it was.  (Violated: the register write
\* comes before the classification and does not look at the error.)
C21_RegisterOnlyOnSuccess ==
  [][rht.pc = "classify" /\ rht'.vars # rht.vars
       => Succeeded(rht') = Succeeded(rht) + 1]_vars

\* some iteration of the task that executeTask has just run ended in an error
SomeIterationFailed == \E i \in 1..Len(xlog.iterErr) : xlog.iterErr[i] # NoErr

\* C22: when a task with ignore_errors has produced an error, in its only run
\* or in any iteration of its with_items loop, its classification increments
\* ignored, leaves ok and changed as they were and records no notification.
\* (Violated: the loop swallows the error of an ignored iteration.)
C22_IgnoredOutcome ==
  [][(/\ rht.pc = "classify"
      /\ fin.tasks[rht.ti].ignoreErrors
      /\ SomeIterationFailed)
       => /\ rht'.summary.ignored = rht.summary.ignored + 1
          /\ Succeeded(rht') = Succeeded(rht)
          /\ rht'.notified = rht.notified]_vars

\* C23: for an executed with_items task, the iterations start in list order;
\* without ignore_errors an iteration that ended in an error is the last one
\* started and executeTask returns its error; with ignore_errors, and when no
\* iteration failed, every item of the list has been executed when executeTask
\* returns.
C23_LoopStopsAtFirstFailure ==
  (rht.pc \in {"exec", "classify"} /\ Len(xlog.started) > 0
     /\ Len(fin.tasks[rht.ti].items) > 0) =>
    LET task == fin.tasks[rht.ti]
    IN /\ xlog.started = [i \in 1..Len(xlog.started) |-> i]
       /\ ~task.ignoreErrors =>
            \A i \in 1..Len(xlog.iterErr) :
              xlog.iterErr[i] # NoErr =>
                /\ i = Len(xlog.started)
                /\ rht.pc = "classify"
                /\ rht.err = xlog.iterErr[i]
       /\ (rht.pc = "classify" /\ (task.ignoreErrors \/ rht.err = NoErr)) =>
            Len(xlog.started) = Len(task.items)

\* C23 witness: a loop over two items without ignore_errors has returned the
\* error of its first iteration, and the second item was never started.
C23_Witness ==
  /\ rht.pc = "classify"
  /\ Len(fin.tasks[rht.ti].items) = 2
  /\ ~fin.tasks[rht.ti].ignoreErrors
  /\ xlog.started = << 1 >>
  /\ rht.err = ExitErr(1, 0)

\* C24: the notified set grows only in a step that classifies a task ok or
\* changed, and only by that task's notify target; a task classified failed,
\* ignored or skipped (by its tags or by its when condition) adds nothing.
C24_NotifyOnlyOnSuccess ==
  [][rht.pc # "idle" /\ rht'.notified # rht.notified
       => /\ rht.pc = "classify"
          /\ Succeeded(rht') = Succeeded(rht) + 1
          /\ rht'.summary.failed = rht.summary.failed
          /\ rht'.summary.ignored = rht.summary.ignored
          /\ rht'.summary.skipped = rht.summary.skipped
          /\ rht'.notified = rht.notified \cup {fin.tasks[rht.ti].notify}]_vars

\* C24 witness: the first task failed and the second was counted ok or
\* changed: only the second task's handler is notified.
C24_Witness ==
  /\ rht.pc \in {"handlers", "return"}
  /\ rht.ti = 3
  /\ fin.tasks[1].notify = "K2"
  /\ rht.summary.failed = 1
  /\ rht.notified = {"K1"}

\* the notified handlers, in the order the play declares them
NotifiedInOrder == SelectSeq(fin.handlers, LAMBDA h : h \in rht.notified)

\* runHostTasks returned from inside its task loop
CutShort == rht.pc = "return" /\ rht.ti <= Len(fin.tasks)

\* C25 as stated: when runHostTasks returns, every notified handler has been
\* executed exactly once, in declaration order, also when fail_fast is set and
\* a task failed.  (Violated by the fail-fast return.)
C25_HandlersAlwaysRun ==
  rht.pc = "return" => xlog.hran = NotifiedInOrder

\* C25 amended: no handler is executed before the last task is over; a run
\* that is not cut short by fail_fast has executed exactly the notified
\* handlers, once each, in declaration order; a run cut short by a failed task
\* under fail_fast has executed no handler.
C25_HandlersUnlessCut ==
  rht.pc # "idle" =>
    /\ Len(xlog.hran) > 0 => rht.ti = Len(fin.tasks) + 1
    /\ (rht.pc = "return" /\ ~CutShort) => xlog.hran = NotifiedInOrder
    /\ CutShort => (fin.failFast /\ rht.summary.failed = 1 /\ xlog.hran = << >>)

\* C25 witness: the first task notified K2, the second K1; both handlers were
\* executed, K1 first as declared, and the run was not cut short.
C25_Witness ==
  /\ rht.pc = "return"
  /\ ~CutShort
  /\ rht.notified = {"K1", "K2"}
  /\ xlog.hran = << "K1", "K2" >>

\* C26: for a task with retries r > 0, in every iteration the closure is called
\* at most r+1 times and never again after a call that returned no error; what
\* runWithRetry returns is the result and error of its last call, which is a
\* success, or the (r+1)-th failure.
C26_Retry ==
  (rht.pc \in {"exec", "classify"} /\ Len(xlog.started) > 0
     /\ fin.tasks[rht.ti].retries > 0) =>
    LET task == fin.tasks[rht.ti]
    IN /\ xlog.calls <= task.retries + 1
       /\ ~xlog.afterOk
       /\ (rht.pc = "classify" /\ Len(task.items) = 0) =>
            /\ << rht.res, rht.err >> = xlog.last
            /\ rht.err # NoErr => xlog.calls = task.retries + 1
       /\ (rht.pc = "classify" /\ Len(task.items) > 0 /\ rht.err # NoErr) =>
            /\ rht.err = xlog.last[2]
            /\ xlog.calls = task.retries + 1

\* C26 witness: a task with one retry and no loop failed at its first call and
\* succeeded at its second; executeTask returned the second call's result.
C26_Witness ==
  /\ rht.pc = "classify"
  /\ fin.tasks[rht.ti].retries = 1
  /\ Len(fin.tasks[rht.ti].items) = 0
  /\ xlog.calls = 2
  /\ rht.err = NoErr
  /\ rht.res = CommandResult(TRUE)

\* C27: for a task with a timeout, a call whose deadline passes first ends with
\* Failed = true, no output and the error "timed out after <timeout>"; a call
\* that completes first ends with the invocation's own result and error; the
\* end of an abandoned invocation changes nothing in runHostTasks (summary,
\* vars, notified set, position); without loop and retries the call's result
\* and error are what executeTask returns.
C27_Timeout ==
  [][/\ (rht.pc # "idle" /\ ext'.abandoned < ext.abandoned) => rht' = rht
     /\ (rht.pc = "exec" /\ fin.tasks[rht.ti].timeout # "") =>
       LET task == fin.tasks[rht.ti]
       IN /\ ext'.abandoned > ext.abandoned =>
               xlog'.last = << [output |-> << >>, changed |-> FALSE, failed |-> TRUE],
                               << "timed out after", task.timeout >> >>
          /\ (ext'.abandoned = ext.abandoned /\ ext' # ext) =>
               \E ok \in BOOLEAN :
                 /\ xlog'.last[1] = CommandResult(ok)
                 /\ xlog'.last[2] = NoErr <=> ok
                 /\ xlog'.last[2] # NoErr => xlog'.last[2][1] = "exit status 1"
          /\ (rht'.pc = "classify" /\ task.retries = 0 /\ Len(task.items) = 0) =>
               << rht'.res, rht'.err >> = xlog'.last]_vars

\* C27 witness: the first task timed out and was counted failed; its abandoned
\* invocation has ended since, and the summary still shows that one failure.
C27_Witness ==
  /\ rht.pc = "loop"
  /\ rht.ti = 2
  /\ fin.tasks[1].timeout = "1s"
  /\ fin.tasks[1].retries = 0
  /\ fin.tasks[1].register = "out"
  /\ xlog.late
  /\ ext.abandoned = 0
  /\ rht.summary = [ZeroSummary EXCEPT !.failed = 1]
  /\ rht.vars = [k \in {"out"} |-> << >>]

(***************************************************************************)
(* Properties of LoadServiceTasksWithDeps (SpecDeps).                      *)
(***************************************************************************)
\* the dependencies the meta of service s declares
DepSet(s) == { fin.deps[s][i] : i \in DOMAIN fin.deps[s] }

RECURSIVE ReachFrom(_)
\* the services reachable from those of S along declared dependencies
ReachFrom(S) ==
  LET more == S \cup UNION { DepSet(s) : s \in S }
  IN IF more = S THEN S ELSE ReachFrom(more)

\* d is s or depends on s, directly or through other services
DependsOn(d, s) == s \in ReachFrom({d})

\* the services that have a task in the list
InList(list) == { list[i][1] : i \in DOMAIN list }

\* every task of service d stands before every task of service s
AllBefore(list, d, s) ==
  \A i, j \in DOMAIN list : (list[i][1] = d /\ list[j][1] = s) => i < j

\* C28 as stated: in the returned list, the tasks of every declared dependency
\* D of every service S of the list precede the tasks of S.  (Violated on a
\* cycle: the service entered first comes last.)
C28_DepsFirst ==
  ld.pc = "done" =>
    \A s \in InList(ld.ret) : \A d \in DepSet(s) : AllBefore(ld.ret, d, s)

\* d was being expanded (a frame of loadWithDeps for d was on the stack) when s
\* was entered
OpenAt(d, s) == \E j \in DOMAIN ld.disc : ld.disc[j] = s /\ d \in ld.open[j]

\* C28 amended: every declared dependency D of a service S of the list is in
\* the list; when D is not S, D's tasks precede S's tasks unless D was still
\* being expanded when S was entered, and then S's tasks precede D's.  A
\* dependency that does not itself depend on S, directly or transitively,
\* always precedes S.
C28_DepsFirstUnlessOpen ==
  ld.pc = "done" =>
    \A s \in InList(ld.ret) : \A d \in DepSet(s) :
      /\ d \in InList(ld.ret)
      /\ d # s => IF OpenAt(d, s) THEN AllBefore(ld.ret, s, d)
                  ELSE AllBefore(ld.ret, d, s)
      /\ ~DependsOn(d, s) => AllBefore(ld.ret, d, s)

\* C28 witness: A on B and C, B on A; the list is B, C, A: C, which does not
\* depend on A, and B precede A, and A, open when B was entered, follows B
\* though B declares it.
C28_Witness ==
  /\ ld.pc = "done"
  /\ fin.deps = [s \in Services |->
                  CASE s = "A" -> << "B", "C" >> [] s = "B" -> << "A" >>
                    [] OTHER -> << >>]
  /\ ld.ret = OwnTasks("B") \o OwnTasks("C") \o OwnTasks("A")
  /\ OpenAt("A", "B")
  /\ ~DependsOn("C", "A")

\* the list holds the own tasks of s once, as one block
OnceIn(list, s) ==
  /\ Cardinality({ i \in DOMAIN list : list[i][1] = s }) = Len(OwnTasks(s))
  /\ \E k \in DOMAIN list :
       k + Len(OwnTasks(s)) - 1 <= Len(list)
       /\ SubSeq(list, k, k + Len(OwnTasks(s)) - 1) = OwnTasks(s)

\* the tasks of each service stand where the service was first encountered:
\* inside the dependency block of the services that were being expanded at
\* that moment, and after the blocks of the services encountered earlier
PlacedAtFirstEncounter(list) ==
  \A i, j \in DOMAIN ld.disc :
    i < j => IF ld.disc[i] \in ld.open[j]
               THEN AllBefore(list, ld.disc[j], ld.disc[i])
             ELSE AllBefore(list, ld.disc[i], ld.disc[j])

\* C29: for every dependency graph, cycles and diamonds included, the call
\* returns, and the list it returns holds the tasks of exactly the services
\* reachable from the requested one, each once, placed at the service's first
\* encounter in depth-first order.
C29_TerminatesOnce ==
  <>[](/\ ld.pc = "done"
       /\ InList(ld.ret) = ReachFrom({"A"})
       /\ \A s \in InList(ld.ret) : OnceIn(ld.ret, s)
       /\ PlacedAtFirstEncounter(ld.ret))

\* C29 witness: an indirect cycle with a self-dependency, A on B, B on A and
\* on itself; the call has returned B's tasks, then A's.
C29_Witness ==
  /\ ld.pc = "done"
  /\ fin.deps["A"] = << "B" >>
  /\ fin.deps["B"] = << "A", "B" >>
  /\ ld.ret = OwnTasks("B") \o OwnTasks("A")

(***************************************************************************)
(* Properties of evaluateCondition (SpecCond).                             *)
(***************************************************************************)
\* C30: a when expression that is only a reference to a variable absent from
\* the scope evaluates to false, for every scope, the empty one included.
C30_AbsentIsFalse ==
  (/\ fout.fn = "evaluateCondition"
   /\ fin.when.ref # ""
   /\ fin.when.ref \notin DOMAIN fin.scope) => fout.ret = FALSE

(***************************************************************************)
(* Properties of one task through executeTask and runOnce (SpecOnce).      *)
(***************************************************************************)
\* the text is one the template engine rejects
Malformed(s) == s.text \in {ParseErrText, ExecErrText}

\* the when gate lets the task of the call through
GatePasses == evaluateCondition(fin.task.when, fin.scope)

\* a templated field that the call renders holds a malformed template: when
\* always, command when the gate passes, changed_when when the command ran
RendersMalformed ==
  \/ Malformed(fin.task.when)
  \/ GatePasses /\ Malformed(fin.task.command)
  \/ GatePasses /\ ~Malformed(fin.task.command) /\ ~fin.opts.dryRun
       /\ Malformed(fin.task.changedWhen)

\* C31: a template error in command, when or changed_when makes the task end
\* failed, or ignored under ignore_errors, never ok, changed or skipped.
C31_TemplateErrorFails ==
  (fout.fn = "runTask" /\ RendersMalformed) =>
    fout.class = (IF fin.task.ignoreErrors THEN "ignored" ELSE "failed")

\* C37: a task is counted skipped only if its when condition evaluated falsy.
C37_SkippedOnlyWhenFalsy ==
  (fout.fn = "runTask" /\ fout.class = "skipped") =>
    (~WhenErr(fin.task, fin.scope) /\ ~GatePasses)

\* C32: in remote mode a command that is the path of an existing local script
\* is sent as the content of the file, with and without a connection pool.
C32_ScriptContentSent ==
  (/\ fout.fn = "runTask"
   /\ ~fin.opts.runLocally
   /\ fout.ret.sent # NoSend
   /\ IsScript(expandVars(fin.task.command, fin.scope), fin.files)) =>
    fout.ret.sent.text = ReadFile(expandVars(fin.task.command, fin.scope))

(***************************************************************************)
(* Properties of the vault (SpecVault).                                    *)
(***************************************************************************)
\* C33: Decrypt(Encrypt(p, w), w) returns p without error, and with a password
\* w2 different from w Decrypt(Encrypt(p, w), w2) returns an error, not p.
C33_RoundTrip ==
  (fout.fn = "vault" /\ fout.pc = "opened") =>
    /\ fout.same = [text |-> fin.p, err |-> ""]
    /\ fin.w2 # fin.w =>
         (fout.other.err # "" /\ fout.other # [text |-> fin.p, err |-> ""])

\* C33 witness: a secret sealed with pw has been opened with pw and refused
\* to the password other.
C33_Witness ==
  /\ fout.fn = "vault"
  /\ fout.pc = "opened"
  /\ fin.p = PlainText("secret")
  /\ fin.w = "pw"
  /\ fin.w2 = "other"
  /\ fout.same.text = PlainText("secret")
  /\ fout.other.err = "vault decrypt"

(***************************************************************************)
(* Properties of config-driven execution (SpecConfig).                     *)
(***************************************************************************)
\* a vault password file is configured and some token field of the config
\* does not decrypt (or the password cannot be read)
DecryptFails ==
  VaultPass(fin) # "" /\ DecryptConfig(fin.cfg, VaultPass(fin)).err # ""

\* with a password file and a field that fails to decrypt, the process exits
\* before the inventory is loaded and before anything is executed
ExitsBeforeInventory ==
  (fout.fn = "config" /\ DecryptFails) =>
    (fout.pc = "exit1" /\ ~fout.inventory /\ fout.creds = << >>)

\* no credential passed to an executed task still has the vault prefix
NoTokenCredential ==
  (fout.fn = "config" /\ fout.pc = "ran") =>
    \A i \in DOMAIN fout.creds : ~IsEncrypted(fout.creds[i])

\* C34: with a vault password file, a config token that fails to decrypt makes
\* the process exit before the inventory is loaded and before any task runs;
\* and a task that is executed never gets a credential with the vault prefix.
C34_VaultBeforeUse == ExitsBeforeInventory /\ NoTokenCredential

(***************************************************************************)
(* Properties of LoadInventory (SpecInventory).  What a line is follows    *)
(* from the file alone: the last header above it decides.                  *)
(***************************************************************************)
\* the line is blank or a comment
Ignorable(raw) == TrimLine(raw) = "" \/ IsComment(TrimLine(raw))

RECURSIVE LastHeader(_, _)
\* the index of the last header line above line i, 0 when there is none
LastHeader(file, i) ==
  IF i <= 1 THEN 0
  ELSE IF IsHeaderLine(TrimLine(file[i - 1])) THEN i - 1
  ELSE LastHeader(file, i - 1)

\* the group line i belongs to and the kind of the line: "none", "header",
\* "host" or "var"; a line under no header, or under a header without a
\* name, is of kind "none" like a blank line
KindOf(file, i) ==
  LET h == LastHeader(file, i)
      inner == IF h = 0 THEN "" ELSE Inner(TrimLine(file[h]))
      name == TrimVars(inner)
  IN IF Ignorable(file[i]) THEN [kind |-> "none", group |-> ""]
     ELSE IF IsHeaderLine(TrimLine(file[i])) THEN [kind |-> "header", group |-> ""]
     ELSE IF name = "" THEN [kind |-> "none", group |-> ""]
     ELSE IF inner # name THEN [kind |-> "var", group |-> name]
     ELSE [kind |-> "host", group |-> name]

\* the indices of the host lines of group g among the first n lines, ascending
HostLines(file, g, n) ==
  { i \in 1..n : KindOf(file, i) = [kind |-> "host", group |-> g] }

RECURSIVE AddressesOf(_, _)
\* the first fields of the lines of the index set, in file order
AddressesOf(file, idx) ==
  IF idx = {} THEN << >>
  ELSE LET top == CHOOSE i \in idx : \A j \in idx : j <= i
       IN Append(AddressesOf(file, idx \ {top}),
                 FieldsOf(TrimLine(file[top]))[1])

\* the groups that have a host list
Groups == {"web", "db", ""}

\* C35: blank and comment lines change nothing; a [g] header makes later
\* lines host lines of g and a [g:vars] header variable lines of g; every host
\* line adds exactly one Host to its group, in file order; a variable line
\* adds no host; lines before the first header are ignored.  After every
\* scanned line the host lists are those of the host lines scanned so far.
C35_InventoryScanner ==
  fout.fn = "LoadInventory" =>
    /\ DOMAIN fout.hosts \subseteq Groups
    /\ \A g \in Groups :
         LET got == At(fout.hosts, g, << >>)
         IN [k \in DOMAIN got |-> got[k].address]
              = AddressesOf(fin.file, HostLines(fin.file, g, fout.i - 1))
    /\ \A g \in DOMAIN fout.groupVars :
         \E k \in 1..(fout.i - 1) : KindOf(fin.file, k) = [kind |-> "var", group |-> g]

\* C35 witness: a host line, then a variable section with one line; the file
\* is read, web has its one host and one group variable.
C35_Witness ==
  /\ fout.fn = "LoadInventory"
  /\ fout.pc = "done"
  /\ fin.file = << "[web]", "h2 ssh_port=22", "[web:vars]" >>
  /\ fout.hosts =
       [g \in {"web"} |->
          << [address |-> "h2", vars |-> [k \in {"ssh_port"} |-> "22"]] >>]
  /\ fout.groupVars = EmptyMap

(***************************************************************************)
(* Properties of the workers' variable maps (SpecScope).                   *)
(***************************************************************************)
\* the tasks of service s before task ti that register a variable
Registering(s, ti) == { j \in 1..2 : j < ti /\ fin.tasks[s][j] # "" }

\* C36: a variable registered by a task of service S on host H is visible to
\* the later tasks and the handler of that worker, and to nothing else: not on
\* another host and not in another service on H.  (One register name: a later
\* registration replaces an earlier one.)
C36_RegisterScope ==
  fout.fn = "scope" =>
    \A e \in fout.log :
      e.seen = IF Registering(e.s, e.ti) = {} THEN {}
               ELSE { OutputOf(e.s, e.h, CHOOSE j \in Registering(e.s, e.ti) :
                                           \A k \in Registering(e.s, e.ti) : k <= j) }

\* C36 witness: both services register in their first task; the handler of
\* the second service on h2 has run and saw the output of its own worker,
\* while h1 registered in both services.
C36_Witness ==
  /\ fout.fn = "scope"
  /\ fin.tasks = [s \in ScopeServices |-> << "out", "" >>]
  /\ [s |-> 2, h |-> "h2", ti |-> 3, seen |-> {OutputOf(2, "h2", 1)}] \in fout.log
  /\ [s |-> 2, h |-> "h1", ti |-> 2, seen |-> {OutputOf(2, "h1", 1)}] \in fout.log

(***************************************************************************)
(* Termination of RunPlaybook (SpecLive).                                  *)
(***************************************************************************)
\* C38: when every invocation returns or has a timeout, RunPlaybook
\* terminates for every number of hosts and forks >= 1: the dispatcher gets
\* past the semaphore and the wait group, every worker that was admitted
\* releases its slot, and the recap is emitted.
C38_Terminates ==
  <>[](/\ mpc = "done"
       /\ recapCount = 1
       /\ sem = 0
       /\ wg = 0
       /\ \A w \in WorkerIds : worker[w].st \in {"idle", "done"})

\* C38 witness: RunPlaybook has returned in a run with fewer forks than hosts
\* in which the worker of every host of a service ran and an invocation that
\* met its deadline is still running.
C38_Witness ==
  /\ mpc = "done"
  /\ recapCount = 1
  /\ opts.forks < NHosts
  /\ abandoned # {}
  /\ \E ps \in Pos : \A h \in Hosts : worker[<<ps[1], ps[2], h>>].st = "done"

(***************************************************************************)
(* Counter conservation in runHostTasks (SpecHost).                        *)
(***************************************************************************)
\* the sum of the five counters of a summary
Total(sum) == sum.ok + sum.changed + sum.failed + sum.skipped + sum.ignored

\* the tasks and handlers the frame has finished with: the tasks before the
\* current one and the handlers executed, less the one still in execution
Finished(frame, log) ==
  (frame.ti - 1) + Len(log.hran)
    - (IF frame.pc \in {"hexec", "hclassify"} THEN 1 ELSE 0)

\* C39: in a worker that is not cut short by fail_fast the counters sum to
\* the number of tasks gone through plus the number of handlers executed, at
\* the return to the whole task list plus the executed handlers; a step counts
\* nothing or adds exactly one to exactly one counter.
C39_CounterConservation ==
  [][(rht.pc # "idle" /\ rht'.pc # "idle") =>
       /\ \/ rht'.summary = rht.summary
          \/ \E f \in DOMAIN rht.summary :
               rht'.summary = [rht.summary EXCEPT ![f] = @ + 1]
       /\ ~(rht'.pc = "return" /\ rht'.ti <= Len(fin.tasks)) =>
            Total(rht'.summary) = Finished(rht', xlog')
       /\ (rht'.pc = "return" /\ rht'.ti > Len(fin.tasks)) =>
            Total(rht'.summary) = Len(fin.tasks) + Len(xlog'.hran)]_vars

\* C39 witness: a run that was not cut short has returned with one task
\* skipped by the tag filter, one task counted otherwise and one handler
\* executed: three counts.
C39_Witness ==
  /\ rht.pc = "return"
  /\ ~CutShort
  /\ rht.summary.skipped = 1
  /\ Len(xlog.hran) = 1
  /\ Total(rht.summary) = 3

(***************************************************************************)
(* Retries of a task with a timeout (SpecHost).                            *)
(***************************************************************************)
\* C40: for a task with timeout and retries, a retry attempt is in execution
\* only when no earlier invocation of the task is still running.  (Violated:
\* the attempt whose deadline fired is left running and the retry starts.)
C40_AttemptsDoNotOverlap ==
  (/\ rht.pc = "exec"
   /\ ext.pc = "invoke"
   /\ ext.attempt > 0
   /\ fin.tasks[rht.ti].timeout # ""
   /\ fin.tasks[rht.ti].retries > 0) => ext.abandoned = 0

====
